---- MODULE Spec2Model ----
(***************************************************************************)
(* Blog publishing service: the REST layer of backend/routes (auth routes  *)
(* and blog routes), the Blog schema and the multer upload filter.         *)
(*                                                                         *)
(* Text is modelled as sequences of one-character strings so that trim,    *)
(* toLowerCase, regular-expression tests and base64 are computed, not      *)
(* assumed.  Optional values are <<>> (absent) or <<v>> (present).         *)
(***************************************************************************)
EXTENDS Integers, Sequences, FiniteSets, TLC

VARIABLES users, blogs, nextBlog, now, req, resp, cookie, issued, pending, updates,
          proc, client

vars == <<users, blogs, nextBlog, now, req, resp, cookie, issued, pending, updates, proc, client>>

(***************************************************************************)
(* Bounds                                                                  *)
(***************************************************************************)
MaxBlogs == 2
MaxUsers == 2
MaxClock == 3
MaxTokens == 2
MaxPending == 2
MaxListed == 3
MaxSessionBlogs == 1
MaxUpdates == 2
MaxEvents == 6
MaxSlides == 4

(***************************************************************************)
(* Optional values and small sequence helpers                              *)
(***************************************************************************)
None == <<>>

Some(v) == <<v>>

IsSome(o) == o # <<>>

Get(o) == o[1]

\* s.indexOf(pat) !== -1 : pat occurs in s as a contiguous substring
Contains(s, pat) ==
    \E i \in 1..(Len(s) - Len(pat) + 1) : SubSeq(s, i, i + Len(pat) - 1) = pat

UpperChars == <<"A","B","C","D","E","F","G","H","I","J","K","L","M",
                "N","O","P","Q","R","S","T","U","V","W","X","Y","Z">>

LowerChars == <<"a","b","c","d","e","f","g","h","i","j","k","l","m",
                "n","o","p","q","r","s","t","u","v","w","x","y","z">>

ToLowerChar(c) ==
    IF \E i \in 1..26 : UpperChars[i] = c
    THEN LowerChars[CHOOSE i \in 1..26 : UpperChars[i] = c]
    ELSE c

\* String.prototype.toLowerCase
ToLowerCase(s) == [i \in 1..Len(s) |-> ToLowerChar(s[i])]

IsSpace(c) == c \in {" ", "\t", "\n"}

RECURSIVE TrimStart(_)
TrimStart(s) ==
    IF s # <<>> /\ IsSpace(Head(s)) THEN TrimStart(Tail(s)) ELSE s

RECURSIVE TrimEnd(_)
TrimEnd(s) ==
    IF s # <<>> /\ IsSpace(s[Len(s)]) THEN TrimEnd(SubSeq(s, 1, Len(s) - 1)) ELSE s

\* String.prototype.trim
Trim(s) == TrimEnd(TrimStart(s))

(***************************************************************************)
(* Buffer.toString('base64') and its inverse                               *)
(***************************************************************************)
B64Chars == <<"A","B","C","D","E","F","G","H","I","J","K","L","M",
              "N","O","P","Q","R","S","T","U","V","W","X","Y","Z",
              "a","b","c","d","e","f","g","h","i","j","k","l","m",
              "n","o","p","q","r","s","t","u","v","w","x","y","z",
              "0","1","2","3","4","5","6","7","8","9","+","/">>

B64Char(n) == B64Chars[n + 1]

B64Index(c) == (CHOOSE i \in 1..64 : B64Chars[i] = c) - 1

RECURSIVE Base64Encode(_)
Base64Encode(bytes) ==
    IF Len(bytes) = 0 THEN <<>>
    ELSE IF Len(bytes) = 1 THEN
        << B64Char(bytes[1] \div 4), B64Char((bytes[1] % 4) * 16), "=", "=" >>
    ELSE IF Len(bytes) = 2 THEN
        << B64Char(bytes[1] \div 4),
           B64Char((bytes[1] % 4) * 16 + bytes[2] \div 16),
           B64Char((bytes[2] % 16) * 4), "=" >>
    ELSE
        << B64Char(bytes[1] \div 4),
           B64Char((bytes[1] % 4) * 16 + bytes[2] \div 16),
           B64Char((bytes[2] % 16) * 4 + bytes[3] \div 64),
           B64Char(bytes[3] % 64) >>
        \o Base64Encode(SubSeq(bytes, 4, Len(bytes)))

RECURSIVE Base64Decode(_)
Base64Decode(text) ==
    IF Len(text) < 4 THEN <<>>
    ELSE
        LET a == B64Index(text[1])
            b == B64Index(text[2])
            rest == SubSeq(text, 5, Len(text))
        IN  IF text[3] = "=" THEN << a * 4 + b \div 16 >>
            ELSE LET c == B64Index(text[3])
                 IN  IF text[4] = "="
                     THEN << a * 4 + b \div 16, (b % 16) * 16 + c \div 4 >>
                     ELSE << a * 4 + b \div 16, (b % 16) * 16 + c \div 4,
                             (c % 4) * 64 + B64Index(text[4]) >>
                          \o Base64Decode(rest)

(***************************************************************************)
(* utils/fileUpload.js : multer configuration                              *)
(***************************************************************************)
\* limits.fileSize
FileSizeLimit == 5 * 1024 * 1024

\* the alternatives of /jpeg|jpg|png|gif|webp/
filetypes == { <<"j","p","e","g">>, <<"j","p","g">>, <<"p","n","g">>,
               <<"g","i","f">>, <<"w","e","b","p">> }

\* RegExp.prototype.test for an unanchored alternation of literals
FiletypesTest(s) == \E pat \in filetypes : Contains(s, pat)

LastIndexOf(s, c) ==
    IF \E i \in 1..Len(s) : s[i] = c
    THEN CHOOSE i \in 1..Len(s) : s[i] = c /\ \A j \in (i+1)..Len(s) : s[j] # c
    ELSE 0

\* path.basename without suffix handling: the part after the last "/"
BaseName(p) == SubSeq(p, LastIndexOf(p, "/") + 1, Len(p))

\* path.extname: from the last "." of the base name to its end; empty when
\* there is no ".", when the only "." is the first character, or for ".."
ExtName(p) ==
    LET base == BaseName(p)
        dot  == LastIndexOf(base, ".")
    IN  IF dot = 0 \/ dot = 1 THEN <<>>
        ELSE IF base = <<".", ".">> THEN <<>>
        ELSE SubSeq(base, dot, Len(base))

\* fileFilter(req, file, cb): TRUE for cb(null, true), FALSE for cb(new Error)
fileFilter(file) ==
    LET mimetype == FiletypesTest(file.mimetype)
        extname  == FiletypesTest(ToLowerCase(ExtName(file.originalname)))
    IN  mimetype /\ extname

(***************************************************************************)
(* Text constants used as request inputs                                    *)
(***************************************************************************)
Str_Hi == <<"H","i">>

Str_Post == <<" ","P","o","s","t"," ">>

Str_News == <<"N","e","w","s">>

Str_Link1 == <<"d","/","1">>

Str_Link2 == <<" ","d","/","2">>

Str_HiPad == <<" ","H","i"," ">>

Str_Blank == <<" "," ">>

Str_Empty == <<>>

Str_Alice == <<"A","l","i","c","e">>

Str_Bob == <<" ","B","o","b">>

Mime_png == <<"i","m","a","g","e","/","p","n","g">>

Mime_jpeg == <<"i","m","a","g","e","/","j","p","e","g">>

Mime_gif == <<"i","m","a","g","e","/","g","i","f">>

Mime_webp == <<"i","m","a","g","e","/","w","e","b","p">>

Mime_jpg == <<"i","m","a","g","e","/","j","p","g">>

Mime_svg == <<"i","m","a","g","e","/","s","v","g">>

Mime_PNG == <<"i","m","a","g","e","/","P","N","G">>

Mime_text == <<"t","e","x","t","/","p","l","a","i","n">>

Mime_pdf == <<"a","p","p","l","i","c","a","t","i","o","n","/","p","d","f">>

Mime_webpack == <<"t","e","x","t","/","w","e","b","p","a","c","k">>

Name_a_png == <<"a",".","p","n","g">>

Name_b_JPG == <<"b",".","J","P","G">>

Name_c_jpeg == <<"c",".","j","p","e","g">>

Name_d_gif == <<"d",".","g","i","f">>

Name_e_webp == <<"e",".","w","e","b","p">>

Name_f_txt == <<"f",".","t","x","t">>

Name_png == <<"p","n","g">>

Name_dotpng == <<".","p","n","g">>

Name_g_png_txt == <<"g",".","p","n","g",".","t","x","t">>

Name_h_pngx == <<"h",".","p","n","g","x">>

Name_i_webpack == <<"i",".","w","e","b","p","a","c","k">>

Name_j_pdf == <<"j",".","p","d","f">>

(***************************************************************************)
(* Documents of the store                                                  *)
(***************************************************************************)
\* models/Blog.js image: { data: Buffer, contentType: String, filename: String }
\* every sub-path is optional; the nested object is absent when none is set
NoImage == [data |-> None, contentType |-> None, filename |-> None]

HasImage(img) == img # NoImage

\* new Blog(blogData): the String setters trim title and googleDriveLink
NewBlogDoc(id, title, link, image, author, createdAt) ==
    [_id |-> id,
     title |-> IF IsSome(title) THEN Some(Trim(Get(title))) ELSE None,
     googleDriveLink |-> IF IsSome(link) THEN Some(Trim(Get(link))) ELSE None,
     image |-> image,
     author |-> author,
     createdAt |-> createdAt]

\* schema validation run by save(): required (a String must be non-empty)
\* and minlength 3 on title, required on googleDriveLink and author
MinTitleLength == 3

\* mutation of ValidateBlog: the title has no minlength
ValidateBlogNoMinLength(doc) ==
    /\ IsSome(doc.title)
    /\ Len(Get(doc.title)) >= 1
    /\ IsSome(doc.googleDriveLink)
    /\ Len(Get(doc.googleDriveLink)) >= 1
    /\ IsSome(doc.author)

ValidateBlog(doc) ==
    /\ IsSome(doc.title)
    /\ Len(Get(doc.title)) >= MinTitleLength
    /\ IsSome(doc.googleDriveLink)
    /\ Len(Get(doc.googleDriveLink)) >= 1
    /\ IsSome(doc.author)

\* Blog.findById(id) for an id that casts to an ObjectId
FindById(db, n) == { b \in db : b._id = n }

(***************************************************************************)
(* Responses and JSON serialisation                                        *)
(***************************************************************************)
Response(status, message) ==
    [status |-> status, message |-> message, error |-> "",
     blogs |-> <<>>, token |-> None, user |-> None]

\* In-memory image bytes: a hydrated document holds a Node Buffer, a lean()
\* result holds the driver's Binary, a converted value is a string.
AsBuffer(bytes) == [kind |-> "Buffer", bytes |-> bytes, text |-> <<>>]

AsBinary(bytes) == [kind |-> "Binary", bytes |-> bytes, text |-> <<>>]

\* value.toString('base64') of a Buffer or a Binary
ToStringBase64(v) == [kind |-> "string", bytes |-> <<>>, text |-> Base64Encode(v.bytes)]

\* JSON.stringify of an image.data value as res.json sends it: a string stays
\* a string, a Binary serialises through its toJSON() to base64 text, a Node
\* Buffer through its toJSON() to { type: 'Buffer', data: [bytes] }
JsonValue(v) ==
    IF v.kind = "string" THEN v
    ELSE IF v.kind = "Binary" THEN ToStringBase64(v)
    ELSE [kind |-> "BufferJSON", bytes |-> v.bytes, text |-> <<>>]

\* the image member of a response body; data is the already converted (or
\* not converted) in-memory value
WireImage(image, data) ==
    IF HasImage(image)
    THEN Some([data |-> IF IsSome(data) THEN Some(JsonValue(Get(data))) ELSE None,
               contentType |-> image.contentType,
               filename |-> image.filename])
    ELSE None

WireBlog(doc, idKey, data, author) ==
    [id |-> IF idKey = "id" THEN Some(doc._id) ELSE None,
     _id |-> IF idKey = "_id" THEN Some(doc._id) ELSE None,
     title |-> doc.title,
     googleDriveLink |-> doc.googleDriveLink,
     image |-> WireImage(doc.image, data),
     author |-> author,
     createdAt |-> doc.createdAt]

\* an author reference that was not populated
AuthorRef(doc) == [id |-> doc.author, name |-> None]

\* populate('author', 'name')
Populate(us, doc) ==
    IF \E u \in us : Some(u._id) = doc.author
    THEN LET u == CHOOSE u \in us : Some(u._id) = doc.author
         IN  [id |-> doc.author, name |-> Some(u.name)]
    ELSE [id |-> None, name |-> None]

\* models/Blog.js toJSON.transform applied by res.json(blog) to a document
ToJSON(doc) ==
    WireBlog(doc, "id",
             IF HasImage(doc.image) /\ IsSome(doc.image.data)
             THEN Some(ToStringBase64(AsBuffer(Get(doc.image.data))))
             ELSE None,
             AuthorRef(doc))

\* mutation of the PUT response: toObject() is sent without the conversion
PutResponseBodyRaw(doc) ==
    WireBlog(doc, "_id",
             IF IsSome(doc.image.data) THEN Some(AsBuffer(Get(doc.image.data))) ELSE None,
             AuthorRef(doc))

\* PUT: blog.toObject() followed by the manual base64 conversion
PutResponseBody(doc) ==
    WireBlog(doc, "_id",
             IF HasImage(doc.image) /\ IsSome(doc.image.data)
             THEN Some(ToStringBase64(AsBuffer(Get(doc.image.data))))
             ELSE None,
             AuthorRef(doc))

\* GET /: the map over the lean() documents
ListItem(us, doc) ==
    WireBlog(doc, "_id",
             IF HasImage(doc.image) /\ IsSome(doc.image.data)
             THEN Some(ToStringBase64(AsBinary(Get(doc.image.data))))
             ELSE None,
             Populate(us, doc))

\* GET /:id : the lean() document is sent as it is
DetailItem(us, doc) ==
    WireBlog(doc, "_id",
             IF IsSome(doc.image.data) THEN Some(AsBinary(Get(doc.image.data))) ELSE None,
             Populate(us, doc))

(***************************************************************************)
(* Requests                                                                *)
(***************************************************************************)
Request(op, token, id, title, link, file) ==
    [op |-> op, token |-> token, id |-> id, title |-> title,
     googleDriveLink |-> link, file |-> file, author |-> None,
     name |-> None, email |-> None, password |-> None,
     bearer |-> None, cookie |-> None]

\* mongoose.Types.ObjectId.isValid(id); a request id is well formed (and then
\* denotes the ObjectId numbered n) or malformed
IsValidObjectId(id) == id.valid

(***************************************************************************)
(* middleware/auth                                                         *)
(***************************************************************************)
\* a token is absent, or carries the user id it was signed for and whether
\* verification (format, signature, expiry) succeeds
auth(token) ==
    IF token = None \/ ~Get(token).ok
    THEN [ok |-> FALSE, user |-> None]
    ELSE [ok |-> TRUE, user |-> Some([id |-> Get(token).id])]

AuthFailure == Response(401, "authentication failure")

(***************************************************************************)
(* upload.single('image') and the error path behind it                     *)
(***************************************************************************)
\* multer: no file part leaves req.file undefined; a file the filter refuses
\* or one longer than limits.fileSize ends the middleware with next(err)
uploadSingle(file) ==
    IF file = None THEN [err |-> "", file |-> None]
    ELSE IF ~fileFilter(Get(file))
    THEN [err |-> "Only image files are allowed (jpeg, jpg, png, gif, webp)", file |-> None]
    ELSE IF Get(file).size > FileSizeLimit
    THEN [err |-> "File too large", file |-> None]
    ELSE [err |-> "",
          file |-> Some([buffer |-> Get(file).buffer,
                         mimetype |-> Get(file).mimetype,
                         originalname |-> Get(file).originalname])]

\* server.js mounts no error-handling middleware: next(err) reaches the
\* framework's final handler, which answers 500 for an error without status
DefaultErrorHandler(err) == Response(500, err)

\* mutation of ImageOfFile: the name is read from req.file.filename, which
\* memory storage does not set
ImageOfFileDiskName(file) ==
    IF IsSome(file)
    THEN [data |-> Some(Get(file).buffer),
          contentType |-> Some(Get(file).mimetype),
          filename |-> None]
    ELSE NoImage

\* the image sub-document both handlers build from req.file
ImageOfFile(file) ==
    IF IsSome(file)
    THEN [data |-> Some(Get(file).buffer),
          contentType |-> Some(Get(file).mimetype),
          filename |-> Some(Get(file).originalname)]
    ELSE NoImage

(***************************************************************************)
(* routes/blogRoutes : handlers                                            *)
(* Each returns the collection after the request and the response.         *)
(***************************************************************************)
\* POST / handler; user is req.user (absent when no middleware set it, and
\* then req.user.id throws inside the try block)
CreateBlog(bs, user, title, link, file, newId, createdAt) ==
    IF user = None
    THEN [blogs |-> bs, created |-> FALSE, resp |-> Response(400, "Error creating blog")]
    ELSE LET doc == NewBlogDoc(newId, title, link, ImageOfFile(file),
                               Some(Get(user).id), createdAt)
         IN  IF ValidateBlog(doc)
             THEN [blogs |-> bs \cup {doc}, created |-> TRUE,
                   resp |-> [Response(201, "") EXCEPT !.blogs = <<ToJSON(doc)>>]]
             ELSE [blogs |-> bs, created |-> FALSE,
                   resp |-> Response(400, "Error creating blog")]

\* mutation of UpdatedDoc: only image.data is assigned from the new file
UpdatedDocDataOnly(blog, title, link, file) ==
    [blog EXCEPT
       !.title = IF IsSome(title) /\ Get(title) # <<>>
                 THEN Some(Trim(Get(title))) ELSE blog.title,
       !.googleDriveLink = IF IsSome(link) /\ Get(link) # <<>>
                           THEN Some(Trim(Get(link))) ELSE blog.googleDriveLink,
       !.image = IF IsSome(file)
                 THEN [blog.image EXCEPT !.data = Some(Get(file).buffer)]
                 ELSE blog.image]

\* mutation of UpdatedDoc: the image is assigned on every update, also when
\* the request carries no file
UpdatedDocResetsImage(blog, title, link, file) ==
    [blog EXCEPT
       !.title = IF IsSome(title) /\ Get(title) # <<>>
                 THEN Some(Trim(Get(title))) ELSE blog.title,
       !.googleDriveLink = IF IsSome(link) /\ Get(link) # <<>>
                           THEN Some(Trim(Get(link))) ELSE blog.googleDriveLink,
       !.image = ImageOfFile(file)]

\* the fields a PUT assigns before save()
UpdatedDoc(blog, title, link, file) ==
    [blog EXCEPT
       !.title = IF IsSome(title) /\ Get(title) # <<>>
                 THEN Some(Trim(Get(title))) ELSE blog.title,
       !.googleDriveLink = IF IsSome(link) /\ Get(link) # <<>>
                           THEN Some(Trim(Get(link))) ELSE blog.googleDriveLink,
       !.image = IF IsSome(file) THEN ImageOfFile(file) ELSE blog.image]

\* mutation of UpdateBlog: the author comparison is missing
UpdateBlogNoOwnerCheck(bs, user, id, title, link, file) ==
    IF ~IsValidObjectId(id) THEN [blogs |-> bs, resp |-> Response(400, "Error updating blog")]
    ELSE IF FindById(bs, id.n) = {} THEN [blogs |-> bs, resp |-> Response(404, "Blog not found")]
    ELSE LET blog == CHOOSE b \in FindById(bs, id.n) : TRUE
             doc  == UpdatedDoc(blog, title, link, file)
         IN  IF ValidateBlog(doc)
             THEN [blogs |-> (bs \ {blog}) \cup {doc},
                   resp |-> [Response(200, "") EXCEPT !.blogs = <<PutResponseBody(doc)>>]]
             ELSE [blogs |-> bs, resp |-> Response(400, "Error updating blog")]

\* PUT /:id handler
UpdateBlog(bs, user, id, title, link, file) ==
    IF ~IsValidObjectId(id)
    THEN \* findById throws a CastError, caught by the handler
         [blogs |-> bs, resp |-> Response(400, "Error updating blog")]
    ELSE IF FindById(bs, id.n) = {}
    THEN [blogs |-> bs, resp |-> Response(404, "Blog not found")]
    ELSE LET blog == CHOOSE b \in FindById(bs, id.n) : TRUE
         IN  IF user = None
             THEN [blogs |-> bs, resp |-> Response(400, "Error updating blog")]
             ELSE IF Get(blog.author) # Get(user).id
             THEN [blogs |-> bs, resp |-> Response(401, "Not authorized")]
             ELSE LET doc == UpdatedDoc(blog, title, link, file)
                  IN  IF ValidateBlog(doc)
                      THEN [blogs |-> (bs \ {blog}) \cup {doc},
                            resp |-> [Response(200, "") EXCEPT
                                        !.blogs = <<PutResponseBody(doc)>>]]
                      ELSE [blogs |-> bs, resp |-> Response(400, "Error updating blog")]

\* mutation of DeleteBlog: the owner's request is answered 200 but the
\* document stays in the collection
DeleteBlogKeepsDocument(bs, user, id) ==
    IF ~IsValidObjectId(id)
    THEN [blogs |-> bs, resp |-> Response(500, "Error deleting blog")]
    ELSE IF FindById(bs, id.n) = {}
    THEN [blogs |-> bs, resp |-> Response(404, "Blog not found")]
    ELSE LET blog == CHOOSE b \in FindById(bs, id.n) : TRUE
         IN  IF user = None
             THEN [blogs |-> bs, resp |-> Response(500, "Error deleting blog")]
             ELSE IF Get(blog.author) # Get(user).id
             THEN [blogs |-> bs, resp |-> Response(401, "Not authorized")]
             ELSE [blogs |-> bs, resp |-> Response(200, "Blog removed successfully")]

\* DELETE /:id handler
DeleteBlog(bs, user, id) ==
    IF ~IsValidObjectId(id)
    THEN \* findById throws a CastError, caught by the handler
         [blogs |-> bs, resp |-> Response(500, "Error deleting blog")]
    ELSE IF FindById(bs, id.n) = {}
    THEN [blogs |-> bs, resp |-> Response(404, "Blog not found")]
    ELSE LET blog == CHOOSE b \in FindById(bs, id.n) : TRUE
         IN  IF user = None
             THEN [blogs |-> bs, resp |-> Response(500, "Error deleting blog")]
             ELSE IF Get(blog.author) # Get(user).id
             THEN [blogs |-> bs, resp |-> Response(401, "Not authorized")]
             ELSE [blogs |-> { b \in bs : b._id # id.n },
                   resp |-> Response(200, "Blog removed successfully")]

\* mutation of GetBlogById: the id format is not checked, so findById throws
\* a CastError that the handler's catch block answers
GetBlogByIdNoFormatCheck(bs, us, id) ==
    IF ~IsValidObjectId(id)
    THEN [Response(500, "Error fetching blog") EXCEPT !.error = "INTERNAL_SERVER_ERROR"]
    ELSE IF FindById(bs, id.n) = {}
    THEN [Response(404, "Blog not found") EXCEPT !.error = "BLOG_NOT_FOUND"]
    ELSE LET blog == CHOOSE b \in FindById(bs, id.n) : TRUE
         IN  [Response(200, "") EXCEPT !.blogs = <<DetailItem(us, blog)>>]

\* GET /:id handler
GetBlogById(bs, us, id) ==
    IF ~IsValidObjectId(id)
    THEN [Response(400, "Invalid blog ID format") EXCEPT !.error = "INVALID_ID_FORMAT"]
    ELSE IF FindById(bs, id.n) = {}
    THEN [Response(404, "Blog not found") EXCEPT !.error = "BLOG_NOT_FOUND"]
    ELSE LET blog == CHOOSE b \in FindById(bs, id.n) : TRUE
         IN  [Response(200, "") EXCEPT !.blogs = <<DetailItem(us, blog)>>]

\* mutation of SortedNewestFirst: sort({ createdAt: 1 })
SortedOldestFirst(bs) ==
    { s \in [1..Cardinality(bs) -> bs] :
        /\ \A i, j \in 1..Cardinality(bs) : i # j => s[i] # s[j]
        /\ \A i, j \in 1..Cardinality(bs) : i < j => s[i].createdAt <= s[j].createdAt }

\* the orders sort({ createdAt: -1 }) may return: newest first, documents of
\* equal createdAt in any order
SortedNewestFirst(bs) ==
    { s \in [1..Cardinality(bs) -> bs] :
        /\ \A i, j \in 1..Cardinality(bs) : i # j => s[i] # s[j]
        /\ \A i, j \in 1..Cardinality(bs) : i < j => s[i].createdAt >= s[j].createdAt }

\* GET / handler for one such order
GetBlogList(us, order) ==
    [Response(200, "") EXCEPT !.blogs = [i \in 1..Len(order) |-> ListItem(us, order[i])]]

(***************************************************************************)
(* routes/blogRoutes : the middleware chain of each route                  *)
(***************************************************************************)
\* router.post('/', auth, upload.single('image'), handler)
RoutePost(bs, r, newId, createdAt) ==
    LET a == auth(r.token)
    IN  IF ~a.ok THEN [blogs |-> bs, created |-> FALSE, resp |-> AuthFailure]
        ELSE LET u == uploadSingle(r.file)
             IN  IF u.err # ""
                 THEN [blogs |-> bs, created |-> FALSE, resp |-> DefaultErrorHandler(u.err)]
                 ELSE CreateBlog(bs, a.user, r.title, r.googleDriveLink, u.file,
                                 newId, createdAt)

\* mutation of RoutePut: the route is registered without the auth middleware
RoutePutNoAuth(bs, r) ==
    LET u == uploadSingle(r.file)
    IN  IF u.err # ""
        THEN [blogs |-> bs, resp |-> DefaultErrorHandler(u.err)]
        ELSE UpdateBlog(bs, None, Get(r.id), r.title, r.googleDriveLink, u.file)

\* mutation of RoutePut: every field of the body is assigned to the document,
\* the author field included
RoutePutAssignsBody(bs, r) ==
    LET a == auth(r.token)
    IN  IF ~a.ok THEN [blogs |-> bs, resp |-> AuthFailure]
        ELSE LET u == uploadSingle(r.file)
             IN  IF u.err # ""
                 THEN [blogs |-> bs, resp |-> DefaultErrorHandler(u.err)]
                 ELSE LET out == UpdateBlog(bs, a.user, Get(r.id), r.title,
                                            r.googleDriveLink, u.file)
                      IN  IF out.resp.status = 200 /\ IsSome(r.author)
                          THEN [out EXCEPT !.blogs =
                                  { IF b._id = Get(r.id).n
                                    THEN [b EXCEPT !.author = r.author] ELSE b :
                                    b \in out.blogs }]
                          ELSE out

\* router.put('/:id', auth, upload.single('image'), handler)
RoutePut(bs, r) ==
    LET a == auth(r.token)
    IN  IF ~a.ok THEN [blogs |-> bs, resp |-> AuthFailure]
        ELSE LET u == uploadSingle(r.file)
             IN  IF u.err # ""
                 THEN [blogs |-> bs, resp |-> DefaultErrorHandler(u.err)]
                 ELSE UpdateBlog(bs, a.user, Get(r.id), r.title, r.googleDriveLink, u.file)

\* mutation of RouteGet: the lookup also writes to the document it reads
RouteGetTouches(bs, us, r) ==
    [blogs |-> { IF IsValidObjectId(Get(r.id)) /\ b._id = Get(r.id).n
                 THEN [b EXCEPT !.createdAt = b.createdAt + 1] ELSE b : b \in bs },
     resp |-> GetBlogById(bs, us, Get(r.id))]

\* router.get('/:id', handler): findById is the only store call
RouteGet(bs, us, r) ==
    [blogs |-> bs, resp |-> GetBlogById(bs, us, Get(r.id))]

\* router.delete('/:id', auth, handler)
RouteDelete(bs, r) ==
    LET a == auth(r.token)
    IN  IF ~a.ok THEN [blogs |-> bs, resp |-> AuthFailure]
        ELSE DeleteBlog(bs, a.user, Get(r.id))

(***************************************************************************)
(* Blog requests as actions; the input sets are parameters                 *)
(***************************************************************************)
PostBlog(Inputs, Ticks, Cap) ==
    \E in \in Inputs, tick \in Ticks :
        LET r   == [Request("POST", in.token, None, in.title, in.googleDriveLink, in.file)
                      EXCEPT !.author = in.author, !.bearer = in.bearer,
                             !.cookie = in.cookie]
            out == RoutePost(blogs, r, nextBlog, now + tick)
        IN  /\ out.created => nextBlog <= Cap
            /\ req' = r
            /\ resp' = out.resp
            /\ blogs' = out.blogs
            /\ nextBlog' = IF out.created THEN nextBlog + 1 ELSE nextBlog
            /\ now' = IF out.created THEN now + tick ELSE now
            /\ UNCHANGED <<users, cookie, issued, pending, updates, proc, client>>

PutBlog(Inputs, Ids) ==
    \E in \in Inputs, id \in Ids :
        LET r   == [Request("PUT", in.token, Some(id), in.title, in.googleDriveLink, in.file)
                      EXCEPT !.author = in.author, !.bearer = in.bearer,
                             !.cookie = in.cookie]
            out == RoutePut(blogs, r)
        IN  /\ req' = r
            /\ resp' = out.resp
            /\ blogs' = out.blogs
            /\ UNCHANGED <<users, nextBlog, now, cookie, issued, pending, updates, proc, client>>

DeleteBlogById(Toks, Ids) ==
    \E t \in Toks, id \in Ids :
        LET r   == Request("DELETE", t, Some(id), None, None, None)
            out == RouteDelete(blogs, r)
        IN  /\ req' = r
            /\ resp' = out.resp
            /\ blogs' = out.blogs
            /\ UNCHANGED <<users, nextBlog, now, cookie, issued, pending, updates, proc, client>>

GetBlogs ==
    \E order \in SortedNewestFirst(blogs) :
        /\ req' = Request("LIST", None, None, None, None, None)
        /\ resp' = GetBlogList(users, order)
        /\ UNCHANGED <<users, blogs, nextBlog, now, cookie, issued, pending, updates, proc, client>>

GetBlog(Ids) ==
    \E id \in Ids :
        LET r   == Request("GET", None, Some(id), None, None, None)
            out == RouteGet(blogs, users, r)
        IN  /\ req' = r
            /\ resp' = out.resp
            /\ blogs' = out.blogs
            /\ UNCHANGED <<users, nextBlog, now, cookie, issued, pending, updates, proc, client>>

(***************************************************************************)
(* PUT /:id split at its awaits: findById, then save                       *)
(***************************************************************************)
\* PUT /:id up to await blog.save(): the document as loaded and as assigned,
\* or <<>> for a request that is answered before it reaches save
PutLoad(bs, r) ==
    LET a == auth(r.token)
        u == uploadSingle(r.file)
    IN  IF ~a.ok \/ u.err # "" \/ a.user = None \/ ~IsValidObjectId(Get(r.id))
        THEN None
        ELSE IF FindById(bs, Get(r.id).n) = {}
        THEN None
        ELSE LET blog == CHOOSE b \in FindById(bs, Get(r.id).n) : TRUE
             IN  IF Get(blog.author) # Get(a.user).id
                 THEN None
                 ELSE Some([loaded |-> blog,
                            doc |-> UpdatedDoc(blog, r.title, r.googleDriveLink, u.file)])

\* the paths whose assigned value differs from the loaded one
ModifiedPaths(loaded, doc) ==
    { f \in { "title", "googleDriveLink", "image" } : doc[f] # loaded[f] }

\* the stored document after the modified paths of doc are written to it
WritePaths(stored, loaded, doc) ==
    [ f \in DOMAIN stored |->
        IF f \in ModifiedPaths(loaded, doc) THEN doc[f] ELSE stored[f] ]

\* mutation of BlogSave: the document is written back whole, and inserted
\* when the collection no longer holds it
BlogSaveUpserts(bs, loaded, doc) ==
    IF ~ValidateBlog(doc)
    THEN { [blogs |-> bs, resp |-> Response(400, "Error updating blog")] }
    ELSE { [blogs |-> { b \in bs : b._id # doc._id } \cup {doc},
            resp |-> [Response(200, "") EXCEPT !.blogs = <<PutResponseBody(doc)>>]] }

\* mutation of BlogSave: the save is refused when the stored document is no
\* longer the one that was loaded
BlogSaveVersioned(bs, loaded, doc) ==
    IF ~ValidateBlog(doc) \/ loaded \notin bs
    THEN { [blogs |-> bs, resp |-> Response(400, "Error updating blog")] }
    ELSE { [blogs |-> (bs \ {loaded}) \cup {doc},
            resp |-> [Response(200, "") EXCEPT !.blogs = <<PutResponseBody(doc)>>]] }

\* await blog.save() of a loaded document and the response that follows:
\* validation, then an update by _id of the modified paths.  The update of
\* a document that is gone stores nothing; whether save() then throws is
\* left open, so both answers are outcomes.
BlogSave(bs, loaded, doc) ==
    IF ~ValidateBlog(doc)
    THEN { [blogs |-> bs, resp |-> Response(400, "Error updating blog")] }
    ELSE IF FindById(bs, doc._id) = {}
    THEN { [blogs |-> bs, resp |-> Response(400, "Error updating blog")],
           [blogs |-> bs,
            resp |-> [Response(200, "") EXCEPT !.blogs = <<PutResponseBody(doc)>>]] }
    ELSE LET stored == CHOOSE b \in FindById(bs, doc._id) : TRUE
         IN  { [blogs |-> (bs \ {stored}) \cup { WritePaths(stored, loaded, doc) },
                resp |-> [Response(200, "") EXCEPT !.blogs = <<PutResponseBody(doc)>>]] }

\* a PUT runs to its first await that the store answers; one that reaches
\* save stays in flight with the document it holds
PutBegin(Inputs, Ids) ==
    \E in \in Inputs, id \in Ids :
        LET r == [Request("PUT", in.token, Some(id), in.title, in.googleDriveLink, in.file)
                    EXCEPT !.author = in.author, !.bearer = in.bearer,
                           !.cookie = in.cookie]
            held == PutLoad(blogs, r)
        IN  IF held = None
            THEN /\ req' = r
                 /\ resp' = RoutePut(blogs, r).resp
                 /\ UNCHANGED <<users, blogs, nextBlog, now, cookie, issued, pending, updates, proc, client>>
            ELSE /\ Cardinality(updates) < MaxUpdates
                 /\ updates' = updates \cup
                      { [req |-> r, loaded |-> Get(held).loaded, doc |-> Get(held).doc,
                         resp |-> None] }
                 /\ UNCHANGED <<users, blogs, nextBlog, now, req, resp, cookie, issued, pending,
                                proc, client>>

\* the save of a PUT in flight, and its response; the exchange is kept
PutFinish ==
    \E u \in updates :
        /\ u.resp = None
        /\ \E out \in BlogSave(blogs, u.loaded, u.doc) :
              /\ req' = u.req
              /\ resp' = out.resp
              /\ blogs' = out.blogs
              /\ updates' = (updates \ {u}) \cup { [u EXCEPT !.resp = Some(out.resp)] }
        /\ UNCHANGED <<users, nextBlog, now, cookie, issued, pending, proc, client>>

(***************************************************************************)
(* server.js : the process, its store connection and its listener          *)
(***************************************************************************)
\* the process before server.js has run
Booting == [phase |-> "starting", db |-> "idle"]

\* the process once it listens and the store has answered the connect
Serving == [phase |-> "listening", db |-> "connected"]

\* server.js top to bottom: the routes are mounted, mongoose.connect is
\* called once and app.listen opens the port without waiting for it
StartServer ==
    /\ proc = Booting
    /\ proc' = [phase |-> "listening", db |-> "connecting"]
    /\ UNCHANGED <<users, blogs, nextBlog, now, req, resp, cookie, issued, pending, updates,
                   client>>

\* mongoose.connect(...).then(() => console.log(...))
ConnectResolved ==
    /\ proc.db = "connecting"
    /\ proc' = [proc EXCEPT !.db = "connected"]
    /\ UNCHANGED <<users, blogs, nextBlog, now, req, resp, cookie, issued, pending, updates,
                   client>>

\* mongoose.connect(...).catch(err => console.error(...)): the rejection is
\* handled by logging it, so neither process handler runs and the listener
\* stays open
ConnectRejected ==
    /\ proc.db = "connecting"
    /\ proc' = [proc EXCEPT !.db = "failed"]
    /\ UNCHANGED <<users, blogs, nextBlog, now, req, resp, cookie, issued, pending, updates,
                   client>>

\* GET / and GET /:id while the store is not connected: the id format is
\* tested without the store; a query waits while the connection is being
\* made, and is rejected into the handler's catch block once it has failed
ServeWithoutStore(Ids) ==
    /\ proc.phase = "listening" /\ proc.db # "connected"
    /\ \/ \E id \in Ids :
             /\ ~IsValidObjectId(id)
             /\ req' = Request("GET", None, Some(id), None, None, None)
             /\ resp' = GetBlogById(blogs, users, id)
       \/ \E id \in Ids :
             /\ IsValidObjectId(id) /\ proc.db = "failed"
             /\ req' = Request("GET", None, Some(id), None, None, None)
             /\ resp' = [Response(500, "Error fetching blog") EXCEPT
                           !.error = "INTERNAL_SERVER_ERROR"]
       \/ /\ proc.db = "failed"
          /\ req' = Request("LIST", None, None, None, None, None)
          /\ resp' = [Response(500, "Error fetching blogs") EXCEPT
                        !.error = "Internal server error"]
    /\ UNCHANGED <<users, blogs, nextBlog, now, cookie, issued, pending, updates, proc, client>>

\* a request handled with the store connected
Connected == proc.phase = "listening" /\ proc.db = "connected"

(***************************************************************************)
(* frontend : what the browser holds                                       *)
(***************************************************************************)
\* localStorage token (written, as in requests, as what verifying it
\* yields) and AuthContext user; the page shown; how the last service call
\* settled; the Dashboard's blogs,
\* editingBlog, showForm and error; the last thing the user did (event), the
\* list entry it was done to (target), the form that was submitted (form)
\* and the multipart body that went out for it (sent); events counts what
\* the user has done so far; the carousel's blogs prop (slides), its
\* currentIndex and isPaused, and whether its render has thrown; loading is
\* AuthProvider's flag, set until the stored token has been checked
FreshClient ==
    [token |-> None, user |-> None, path |-> "/", outcome |-> "none",
     list |-> <<>>, editing |-> None, showForm |-> FALSE, error |-> FALSE,
     event |-> "none", target |-> None, form |-> None, sent |-> <<>>, events |-> 0,
     slides |-> <<>>, index |-> 0, paused |-> FALSE, crashed |-> FALSE,
     loading |-> TRUE]

\* a multipart body is a sequence of parts, each a text field or a file
Part(name, text) == [name |-> name, text |-> Some(text), file |-> None]

FilePart(name, f) == [name |-> name, text |-> None, file |-> Some(f)]

\* formData.get(name): the first part of that name
FormDataGet(parts, name) ==
    IF \E i \in 1..Len(parts) : parts[i].name = name
    THEN Some(parts[CHOOSE i \in 1..Len(parts) :
                       /\ parts[i].name = name
                       /\ \A j \in 1..(i - 1) : parts[j].name # name])
    ELSE None

\* utils/validation isValidGoogleDocsUrl; the link texts of the model stand
\* for document URLs cut down to their path from "d/" on, and URL parsing
\* drops surrounding blanks
isValidGoogleDocsUrl(url) ==
    LET u == Trim(url)
    IN  Len(u) > 2 /\ SubSeq(u, 1, 2) = <<"d", "/">>

ValidTypes == { Mime_jpeg, Mime_png, Mime_gif, Mime_webp }

\* BlogForm.handleFileChange: the chosen file becomes the form's image when
\* its type and size pass; otherwise the form keeps no image
handleFileChange(chosen) ==
    IF chosen = None THEN None
    ELSE IF Get(chosen).mimetype \notin ValidTypes THEN None
    ELSE IF Get(chosen).size > FileSizeLimit THEN None
    ELSE chosen

FormState(title, link, chosen) ==
    [title |-> title, googleDriveLink |-> link, image |-> handleFileChange(chosen)]

\* BlogForm.validateForm
validateForm(form) ==
    /\ Trim(form.title) # <<>>
    /\ form.googleDriveLink # <<>>
    /\ isValidGoogleDocsUrl(form.googleDriveLink)

\* BlogForm.handleSubmit: the FormData handed to onSubmit
FormDataToSubmit(form) ==
    << Part("title", form.title), Part("googleDriveLink", form.googleDriveLink) >>
    \o (IF IsSome(form.image) THEN << FilePart("image", Get(form.image)) >> ELSE << >>)

\* values of a BlogFormData object
StringValue(text) == [kind |-> "string", text |-> text, files |-> <<>>]

FileListValue(files) == [kind |-> "FileList", text |-> <<>>, files |-> files]

Str_ObjectFileList ==
    <<"[","o","b","j","e","c","t"," ","F","i","l","e","L","i","s","t","]">>

FileValue(f) == [kind |-> "File", text |-> <<>>, files |-> <<f>>]

Str_ObjectFile == <<"[","o","b","j","e","c","t"," ","F","i","l","e","]">>

\* String(value)
StringOf(v) ==
    IF v.kind = "FileList" THEN Str_ObjectFileList
    ELSE IF v.kind = "File" THEN Str_ObjectFile
    ELSE v.text

\* the text of a FormData entry, or "" (formData.get(...)?.toString().trim() || '')
EntryText(parts, name) ==
    IF FormDataGet(parts, name) = None THEN <<>>
    ELSE IF IsSome(Get(FormDataGet(parts, name)).text)
    THEN Trim(Get(Get(FormDataGet(parts, name)).text))
    ELSE <<>>

\* Dashboard.handleFormSubmit up to the service call: the BlogFormData
\* object, the image wrapped by createFileListFromFile when it is a File
BlogData(parts) ==
    [title |-> StringValue(EntryText(parts, "title")),
     googleDriveLink |-> StringValue(EntryText(parts, "googleDriveLink")),
     image |-> IF FormDataGet(parts, "image") # None
                  /\ IsSome(Get(FormDataGet(parts, "image")).file)
               THEN FileListValue(<< Get(Get(FormDataGet(parts, "image")).file) >>)
               ELSE StringValue(<<>>)]

\* formData.append(key, value instanceof File ? value : String(value))
AppendEntry(name, v) ==
    IF v.kind = "File" THEN << FilePart(name, v.files[1]) >>
    ELSE << Part(name, StringOf(v)) >>

\* the FormData that Dashboard's createBlog and updateBlog build
ServiceFormData(data) ==
    AppendEntry("title", data.title)
    \o AppendEntry("googleDriveLink", data.googleDriveLink)
    \o AppendEntry("image", data.image)

\* what upload.single('image') and the body parser make of a multipart
\* body: text fields go to req.body, the file part named image to req.file
MultipartRequest(op, token, id, parts) ==
    LET field(name) ==
            IF \E i \in 1..Len(parts) : parts[i].name = name /\ IsSome(parts[i].text)
            THEN (parts[CHOOSE i \in 1..Len(parts) :
                           parts[i].name = name /\ IsSome(parts[i].text)]).text
            ELSE None
        upload ==
            IF \E i \in 1..Len(parts) : parts[i].name = "image" /\ IsSome(parts[i].file)
            THEN (parts[CHOOSE i \in 1..Len(parts) :
                           parts[i].name = "image" /\ IsSome(parts[i].file)]).file
            ELSE None
    IN  Request(op, token, id, field("title"), field("googleDriveLink"), upload)

\* fetchWithAuth: response.ok
ResponseOk(r) == r.status \in 200..299

\* the request id that the path segment made from a list entry's _id names
PathId(n) == [valid |-> TRUE, n |-> n]

\* [...data].sort by createdAt, newest first; the sort is stable
RECURSIVE InsertNewestFirst(_, _)
InsertNewestFirst(sorted, b) ==
    IF sorted = <<>> THEN <<b>>
    ELSE IF Head(sorted).createdAt >= b.createdAt
    THEN <<Head(sorted)>> \o InsertNewestFirst(Tail(sorted), b)
    ELSE <<b>> \o sorted

RECURSIVE SortNewestFirst(_)
SortNewestFirst(seq) ==
    IF seq = <<>> THEN <<>>
    ELSE InsertNewestFirst(SortNewestFirst(SubSeq(seq, 1, Len(seq) - 1)), seq[Len(seq)])

\* Dashboard mounts: GET /api/blogs fills the list
DashboardMount ==
    \E order \in SortedNewestFirst(blogs) :
        LET out == GetBlogList(users, order)
        IN  /\ client.events < MaxEvents
            /\ req' = Request("LIST", None, None, None, None, None)
            /\ resp' = out
            /\ client' = [client EXCEPT !.list = SortNewestFirst(out.blogs),
                                        !.editing = None, !.showForm = FALSE,
                                        !.error = FALSE, !.event = "mount",
                                        !.events = @ + 1,
                                        !.target = None, !.form = None, !.sent = <<>>]
            /\ UNCHANGED <<users, blogs, nextBlog, now, cookie, issued, pending, updates, proc>>

handleCreateBlog ==
    /\ client.events < MaxEvents
    /\ client' = [client EXCEPT !.editing = None, !.showForm = TRUE,
                                !.event = "create", !.target = None, !.events = @ + 1]
    /\ UNCHANGED <<users, blogs, nextBlog, now, req, resp, cookie, issued, pending, updates,
                   proc>>

\* the Edit button of a list entry; the list shows only without an error
handleEditBlog ==
    /\ client.events < MaxEvents
    /\ ~client.error
    /\ \E i \in 1..Len(client.list) :
          client' = [client EXCEPT !.editing = Some(client.list[i]), !.showForm = TRUE,
                                   !.event = "edit", !.target = Some(client.list[i]),
                                   !.events = @ + 1]
    /\ UNCHANGED <<users, blogs, nextBlog, now, req, resp, cookie, issued, pending, updates,
                   proc>>

\* BlogForm.handleSubmit and Dashboard.handleFormSubmit for the form as
\* filled in, with the server's handling of the request they send
handleFormSubmit(Forms) ==
    /\ client.events < MaxEvents
    /\ client.showForm
    /\ \E form \in Forms :
          LET parts  == FormDataToSubmit(form)
              data   == BlogData(parts)
              body   == ServiceFormData(data)
              asked  == [client EXCEPT !.event = "submit", !.target = client.editing,
                                       !.form = Some(form), !.events = @ + 1]
          IN  IF ~validateForm(form) \/ data.title.text = <<>>
                                     \/ data.googleDriveLink.text = <<>>
              THEN /\ client' = [asked EXCEPT !.sent = <<>>]
                   /\ UNCHANGED <<blogs, nextBlog, now, req, resp>>
              ELSE IF IsSome(client.editing) /\ IsSome(Get(client.editing)._id)
              THEN LET id  == Get(Get(client.editing)._id)
                       r   == MultipartRequest("PUT", client.token, Some(PathId(id)), body)
                       out == RoutePut(blogs, r)
                   IN  /\ req' = r
                       /\ resp' = out.resp
                       /\ blogs' = out.blogs
                       /\ client' =
                            IF ResponseOk(out.resp)
                            THEN [asked EXCEPT
                                    !.sent = body, !.showForm = FALSE,
                                    !.list = [i \in 1..Len(client.list) |->
                                                IF client.list[i]._id = Some(id)
                                                THEN out.resp.blogs[1]
                                                ELSE client.list[i]]]
                            ELSE [asked EXCEPT !.sent = body]
                       /\ UNCHANGED <<nextBlog, now>>
              ELSE LET r   == MultipartRequest("POST", client.token, None, body)
                       out == RoutePost(blogs, r, nextBlog, now + 1)
                   IN  /\ out.created => nextBlog <= MaxBlogs
                       /\ req' = r
                       /\ resp' = out.resp
                       /\ blogs' = out.blogs
                       /\ nextBlog' = IF out.created THEN nextBlog + 1 ELSE nextBlog
                       /\ now' = IF out.created THEN now + 1 ELSE now
                       /\ client' =
                            IF ResponseOk(out.resp)
                            THEN [asked EXCEPT !.sent = body, !.showForm = FALSE,
                                               !.list = <<out.resp.blogs[1]>> \o client.list]
                            ELSE [asked EXCEPT !.sent = body]
    /\ UNCHANGED <<users, cookie, issued, pending, updates, proc>>

\* the Delete button of a list entry, confirmed: handleDeleteBlog(blog._id)
handleDeleteBlog ==
    /\ client.events < MaxEvents
    /\ ~client.error
    /\ \E i \in 1..Len(client.list) :
          LET entry == client.list[i]
              asked == [client EXCEPT !.event = "delete", !.target = Some(entry),
                                      !.form = None, !.sent = <<>>, !.events = @ + 1]
          IN  IF entry._id = None
              THEN /\ client' = asked
                   /\ UNCHANGED <<blogs, req, resp>>
              ELSE LET id  == Get(entry._id)
                       r   == Request("DELETE", client.token, Some(PathId(id)),
                                      None, None, None)
                       out == RouteDelete(blogs, r)
                   IN  /\ req' = r
                       /\ resp' = out.resp
                       /\ blogs' = out.blogs
                       /\ client' =
                            IF ResponseOk(out.resp)
                            THEN [asked EXCEPT
                                    !.list = SelectSeq(client.list,
                                                LAMBDA b : b._id # Some(id))]
                            ELSE [asked EXCEPT !.error = TRUE]
    /\ UNCHANGED <<users, nextBlog, now, cookie, issued, pending, updates, proc>>


(***************************************************************************)
(* frontend : api.ts and services/blogService                              *)
(***************************************************************************)
\* the page after a full load: nothing is held in memory
Reloaded(c, path) ==
    [FreshClient EXCEPT !.token = c.token, !.path = path, !.events = c.events,
                        !.event = c.event]

\* mutation of OnResponseError: the token is removed and the path changed
\* without a page load
OnResponseErrorNoReload(c, status) ==
    IF status = 401 /\ c.path \notin { "/login", "/register" }
    THEN [c EXCEPT !.token = None, !.path = "/login"]
    ELSE c

\* api.ts response interceptor, error branch: a 401 outside the login and
\* register pages removes the stored token and loads /login
OnResponseError(c, status) ==
    IF status = 401 /\ c.path \notin { "/login", "/register" }
    THEN Reloaded([c EXCEPT !.token = None], "/login")
    ELSE c

\* the answer the client gets: the server's, or none when the request or
\* the response is lost (the request then fails with no response)
NoResponse == Response(0, "")

\* axios settles a request: fulfilled for a 2xx status, rejected otherwise
AxiosFulfilled(r) == r.status \in 200..299

\* response.data.success: the bodies the blog routes send for POST, PUT and
\* DELETE (the blog, the updated blog, { message }) have no such member;
\* of the blog routes only GET /:id sends one
DataSuccess(op, r) == op = "GET" /\ r.status = 200

\* createBlog, updateBlog, deleteBlog: how the returned promise settles
ServiceOutcome(op, r) ==
    IF ~AxiosFulfilled(r) THEN "rejected"
    ELSE IF ~DataSuccess(op, r) THEN "rejected"
    ELSE "resolved"

\* blogService.createBlog: a File image is appended as it is, every other
\* value as String(value)
CreateFormData(data) ==
    << Part("title", StringOf(data.title)),
       Part("googleDriveLink", StringOf(data.googleDriveLink)) >>
    \o (IF data.image.kind = "File"
        THEN << FilePart("image", data.image.files[1]) >>
        ELSE << Part("image", StringOf(data.image)) >>)

\* blogService.updateBlog for a plain object: the first file of a non-empty
\* FileList is appended, every other value as String(value)
UpdateFormData(data) ==
    << Part("title", StringOf(data.title)),
       Part("googleDriveLink", StringOf(data.googleDriveLink)) >>
    \o (IF data.image.kind = "FileList" /\ data.image.files # << >>
        THEN << FilePart("image", data.image.files[1]) >>
        ELSE << Part("image", StringOf(data.image)) >>)

\* a service call as the client sees it: the request goes out with the
\* stored token, the server handles it unless it is lost, the interceptor
\* and the service function treat the answer
Settle(c, what, r, answer) ==
    [OnResponseError([c EXCEPT !.event = what, !.events = @ + 1], answer.status)
       EXCEPT !.outcome = ServiceOutcome(r.op, answer)]

ServiceCreateBlog(Data) ==
    /\ client.events < MaxEvents
    /\ \E data \in Data, lost \in { "nothing", "request", "response" } :
          LET r   == MultipartRequest("POST", client.token, None, CreateFormData(data))
              out == IF lost = "request"
                     THEN [blogs |-> blogs, created |-> FALSE, resp |-> NoResponse]
                     ELSE RoutePost(blogs, r, nextBlog, now + 1)
              answer == IF lost = "nothing" THEN out.resp ELSE NoResponse
          IN  /\ out.created => nextBlog <= MaxBlogs
              /\ req' = r
              /\ resp' = answer
              /\ blogs' = out.blogs
              /\ nextBlog' = IF out.created THEN nextBlog + 1 ELSE nextBlog
              /\ now' = IF out.created THEN now + 1 ELSE now
              /\ client' = Settle(client, "createBlog", r, answer)
    /\ UNCHANGED <<users, cookie, issued, pending, updates, proc>>

ServiceUpdateBlog(Data, Ids) ==
    /\ client.events < MaxEvents
    /\ \E data \in Data, id \in Ids, lost \in { "nothing", "request", "response" } :
          LET r   == MultipartRequest("PUT", client.token, Some(id), UpdateFormData(data))
              out == IF lost = "request" THEN [blogs |-> blogs, resp |-> NoResponse]
                     ELSE RoutePut(blogs, r)
              answer == IF lost = "nothing" THEN out.resp ELSE NoResponse
          IN  /\ req' = r
              /\ resp' = answer
              /\ blogs' = out.blogs
              /\ client' = Settle(client, "updateBlog", r, answer)
    /\ UNCHANGED <<users, nextBlog, now, cookie, issued, pending, updates, proc>>

ServiceDeleteBlog(Ids) ==
    /\ client.events < MaxEvents
    /\ \E id \in Ids, lost \in { "nothing", "request", "response" } :
          LET r   == Request("DELETE", client.token, Some(id), None, None, None)
              out == IF lost = "request" THEN [blogs |-> blogs, resp |-> NoResponse]
                     ELSE RouteDelete(blogs, r)
              answer == IF lost = "nothing" THEN out.resp ELSE NoResponse
          IN  /\ req' = r
              /\ resp' = answer
              /\ blogs' = out.blogs
              /\ client' = Settle(client, "deleteBlog", r, answer)
    /\ UNCHANGED <<users, nextBlog, now, cookie, issued, pending, updates, proc>>

(***************************************************************************)
(* frontend : components/BlogCarousel                                      *)
(***************************************************************************)
\* the render after a state or prop change: an empty list shows a notice;
\* otherwise currentBlog = blogs[currentIndex] is read, and reading a
\* member of undefined throws
Rendered(c) ==
    [c EXCEPT !.crashed = c.slides # <<>> /\ c.index + 1 \notin DOMAIN c.slides]

\* the arrows and dots are rendered when there is more than one blog
hasMultipleItems == Len(client.slides) > 1

CarouselStep(c) ==
    /\ client' = Rendered(c)
    /\ UNCHANGED <<users, blogs, nextBlog, now, req, resp, cookie, issued, pending, updates,
                   proc>>

goToNext ==
    /\ ~client.crashed /\ hasMultipleItems
    /\ CarouselStep([client EXCEPT !.index = (@ + 1) % Len(client.slides),
                                   !.event = "next"])

goToPrev ==
    /\ ~client.crashed /\ hasMultipleItems
    /\ CarouselStep([client EXCEPT
                       !.index = (@ - 1 + Len(client.slides)) % Len(client.slides),
                       !.event = "prev"])

\* a dot of the indicator: setCurrentIndex(index)
DotClick ==
    /\ ~client.crashed /\ hasMultipleItems
    /\ \E i \in 0..(Len(client.slides) - 1) :
          CarouselStep([client EXCEPT !.index = i, !.event = "dot"])

\* the interval of the auto-advance effect, which runs for more than one
\* blog while the pointer is outside
AutoAdvance ==
    /\ ~client.crashed /\ Len(client.slides) > 1 /\ ~client.paused
    /\ CarouselStep([client EXCEPT !.index = (@ + 1) % Len(client.slides),
                                   !.event = "timer"])

onMouseEnter ==
    /\ ~client.crashed /\ client.slides # <<>>
    /\ CarouselStep([client EXCEPT !.paused = TRUE, !.event = "enter"])

onMouseLeave ==
    /\ ~client.crashed /\ client.slides # <<>>
    /\ CarouselStep([client EXCEPT !.paused = FALSE, !.event = "leave"])

\* the parent passes another list; the component keeps its state
ReplaceBlogs(Lists) ==
    /\ ~client.crashed
    /\ \E l \in Lists :
          CarouselStep([client EXCEPT !.slides = l, !.event = "replace"])

(***************************************************************************)
(* models/User : schema, password hook and queries                         *)
(***************************************************************************)
Email_abc == <<"a","@","b",".","c">>

Email_ABc == <<"A","@","B",".","c">>

Email_abc_sp == <<" ","a","@","b",".","c">>

Email_xyz == <<"x","@","y",".","z">>

Email_mno == <<"m","@","n",".","o">>

Email_bad == <<"a","b",".","c">>

Pw_secret1 == <<"s","e","c","r","e","t","1">>

Pw_hunter2 == <<"h","u","n","t","e","r","2">>

Pw_12345 == <<"1","2","3","4","5">>

\* the one-way hash of the pre-save hook
Hash(password) == <<"$","2","a","$">> \o password

\* user.comparePassword(candidate)
comparePassword(user, candidate) == Hash(candidate) = user.password

\* the email path is declared lowercase and trimmed: the setters apply to
\* stored values and to query filters
NormalizeEmail(email) == Trim(ToLowerCase(email))

\* User.findOne({ email })
UserFindOne(us, email) == { u \in us : u.email = NormalizeEmail(email) }

\* new User({...}) followed by save(): required name, unique email, hashing.
\* Result: "ok" with the stored document, "validation" or "duplicate".
\* mutation of UserSave: the email path has no unique index
UserSaveNoUniqueIndex(us, name, email, password) ==
    LET doc == [_id |-> Cardinality(us) + 1,
                name |-> name,
                email |-> NormalizeEmail(email),
                password |-> Hash(password)]
    IN  IF name = <<>> THEN [kind |-> "validation", doc |-> doc]
        ELSE [kind |-> "ok", doc |-> doc]

UserSave(us, name, email, password) ==
    LET doc == [_id |-> Cardinality(us) + 1,
                name |-> name,
                email |-> NormalizeEmail(email),
                password |-> Hash(password)]
    IN  IF name = <<>> THEN [kind |-> "validation", doc |-> doc]
        ELSE IF \E u \in us : u.email = doc.email THEN [kind |-> "duplicate", doc |-> doc]
        ELSE [kind |-> "ok", doc |-> doc]

\* jwt.sign({ id }, secret, { expiresIn })
SignToken(id) == Some([id |-> id, ok |-> TRUE])

\* process.env.JWT_EXPIRE in clock ticks
JwtExpire == 2

\* the claims of the token signed at time clock: the user id and the expiry
\* that expiresIn adds to the time of signing
IssueToken(token, clock) ==
    [kind |-> "jwt", id |-> Get(token).id, exp |-> clock + JwtExpire]

\* the value 'none' that logout writes into the token cookie
NoneCookie == [kind |-> "none", id |-> 0, exp |-> 0]

\* res.cookie('token', token, ...) of register and login: the cookie the
\* client holds after a response, given the one it held before
SetCookie(held, r, clock) ==
    IF IsSome(r.token) THEN Some(IssueToken(r.token, clock)) ELSE held

\* the tokens handed out so far, after a response
Issue(given, r, clock) ==
    IF IsSome(r.token) THEN given \cup { IssueToken(r.token, clock) } ELSE given

(***************************************************************************)
(* routes/authRoutes : register and login                                  *)
(***************************************************************************)
IsFalsy(o) == o = None \/ Get(o) = <<>>

\* /^[^\s@]+@[^\s@]+\.[^\s@]+$/.test(email)
EmailRegexTest(email) ==
    /\ \A i \in 1..Len(email) : ~IsSpace(email[i])
    /\ Cardinality({ i \in 1..Len(email) : email[i] = "@" }) = 1
    /\ LET at == CHOOSE i \in 1..Len(email) : email[i] = "@"
       IN  /\ at > 1
           /\ \E d \in (at + 2)..(Len(email) - 1) : email[d] = "."

MinPasswordLength == 6

UserBody(doc) == Some([id |-> doc._id, name |-> doc.name, email |-> doc.email])

\* mutation of Register: the email is stored as typed
RegisterStoreRaw(us, name, email, password) ==
    IF IsFalsy(name) \/ IsFalsy(email) \/ IsFalsy(password)
    THEN [users |-> us, resp |-> Response(400, "Please provide all required fields: name, email, and password")]
    ELSE IF ~EmailRegexTest(Get(email))
    THEN [users |-> us, resp |-> Response(400, "Please provide a valid email address")]
    ELSE IF Len(Get(password)) < MinPasswordLength
    THEN [users |-> us, resp |-> Response(400, "Password must be at least 6 characters long")]
    ELSE IF \E u \in us : u.email = Get(email)
    THEN [users |-> us, resp |-> Response(400, "Email already registered. Please use a different email or login.")]
    ELSE LET doc == [_id |-> Cardinality(us) + 1, name |-> Trim(Get(name)),
                     email |-> Get(email), password |-> Hash(Get(password))]
         IN  [users |-> us \cup {doc},
              resp |-> [Response(201, "") EXCEPT !.token = SignToken(doc._id),
                                                 !.user = UserBody(doc)]]

\* mutation of Register: the store is asked for the email before the input
\* is validated
RegisterFindsFirst(us, name, email, password) ==
    IF ~IsFalsy(email) /\ UserFindOne(us, Get(email)) # {}
    THEN [users |-> us, resp |-> Response(400, "Email already registered. Please use a different email or login.")]
    ELSE IF IsFalsy(name) \/ IsFalsy(email) \/ IsFalsy(password)
    THEN [users |-> us, resp |-> Response(400, "Please provide all required fields: name, email, and password")]
    ELSE IF ~EmailRegexTest(Get(email))
    THEN [users |-> us, resp |-> Response(400, "Please provide a valid email address")]
    ELSE IF Len(Get(password)) < MinPasswordLength
    THEN [users |-> us, resp |-> Response(400, "Password must be at least 6 characters long")]
    ELSE LET saved == UserSave(us, Trim(Get(name)), Trim(ToLowerCase(Get(email))),
                               Get(password))
         IN  IF saved.kind = "validation"
             THEN [users |-> us, resp |-> Response(400, "Validation error")]
             ELSE IF saved.kind = "duplicate"
             THEN [users |-> us, resp |-> Response(400, "Email already registered")]
             ELSE [users |-> us \cup {saved.doc},
                   resp |-> [Response(201, "") EXCEPT !.token = SignToken(saved.doc._id),
                                                      !.user = UserBody(saved.doc)]]

\* POST /register handler
Register(us, name, email, password) ==
    IF IsFalsy(name) \/ IsFalsy(email) \/ IsFalsy(password)
    THEN [users |-> us, resp |-> Response(400, "Please provide all required fields: name, email, and password")]
    ELSE IF ~EmailRegexTest(Get(email))
    THEN [users |-> us, resp |-> Response(400, "Please provide a valid email address")]
    ELSE IF Len(Get(password)) < MinPasswordLength
    THEN [users |-> us, resp |-> Response(400, "Password must be at least 6 characters long")]
    ELSE IF UserFindOne(us, Get(email)) # {}
    THEN [users |-> us, resp |-> Response(400, "Email already registered. Please use a different email or login.")]
    ELSE LET saved == UserSave(us, Trim(Get(name)), Trim(ToLowerCase(Get(email))),
                               Get(password))
         IN  IF saved.kind = "validation"
             THEN [users |-> us, resp |-> Response(400, "Validation error")]
             ELSE IF saved.kind = "duplicate"
             THEN [users |-> us, resp |-> Response(400, "Email already registered")]
             ELSE [users |-> us \cup {saved.doc},
                   resp |-> [Response(201, "") EXCEPT !.token = SignToken(saved.doc._id),
                                                      !.user = UserBody(saved.doc)]]

\* POST /register up to the answer of await User.findOne: the response of
\* a request that ends there, or <<>> for one that goes on to save
RegisterCheck(us, name, email, password) ==
    IF IsFalsy(name) \/ IsFalsy(email) \/ IsFalsy(password)
    THEN Some(Response(400, "Please provide all required fields: name, email, and password"))
    ELSE IF ~EmailRegexTest(Get(email))
    THEN Some(Response(400, "Please provide a valid email address"))
    ELSE IF Len(Get(password)) < MinPasswordLength
    THEN Some(Response(400, "Password must be at least 6 characters long"))
    ELSE IF UserFindOne(us, Get(email)) # {}
    THEN Some(Response(400, "Email already registered. Please use a different email or login."))
    ELSE None

\* POST /register from await user.save() on, against the users stored then
RegisterSave(us, name, email, password) ==
    LET saved == UserSave(us, Trim(Get(name)), Trim(ToLowerCase(Get(email))),
                          Get(password))
    IN  IF saved.kind = "validation"
        THEN [users |-> us, resp |-> Response(400, "Validation error")]
        ELSE IF saved.kind = "duplicate"
        THEN [users |-> us, resp |-> Response(400, "Email already registered")]
        ELSE [users |-> us \cup {saved.doc},
              resp |-> [Response(201, "") EXCEPT !.token = SignToken(saved.doc._id),
                                                 !.user = UserBody(saved.doc)]]

InvalidCredentials == Response(401, "Invalid credentials")

\* mutation of Login: an unknown email gets its own answer
LoginTellsUnknown(us, email, password) ==
    IF IsFalsy(email) \/ IsFalsy(password)
    THEN Response(400, "Please provide email and password")
    ELSE IF UserFindOne(us, Get(email)) = {}
    THEN Response(404, "User not found")
    ELSE LET user == CHOOSE u \in UserFindOne(us, Get(email)) : TRUE
         IN  IF ~comparePassword(user, Get(password))
             THEN InvalidCredentials
             ELSE [Response(200, "") EXCEPT !.token = SignToken(user._id),
                                            !.user = UserBody(user)]

\* mutation of Login: the password comparison is missing
LoginNoPasswordCheck(us, email, password) ==
    IF IsFalsy(email) \/ IsFalsy(password)
    THEN Response(400, "Please provide email and password")
    ELSE IF UserFindOne(us, Get(email)) = {}
    THEN InvalidCredentials
    ELSE LET user == CHOOSE u \in UserFindOne(us, Get(email)) : TRUE
         IN  [Response(200, "") EXCEPT !.token = SignToken(user._id),
                                       !.user = UserBody(user)]

\* POST /login handler
Login(us, email, password) ==
    IF IsFalsy(email) \/ IsFalsy(password)
    THEN Response(400, "Please provide email and password")
    ELSE IF UserFindOne(us, Get(email)) = {}
    THEN InvalidCredentials
    ELSE LET user == CHOOSE u \in UserFindOne(us, Get(email)) : TRUE
         IN  IF ~comparePassword(user, Get(password))
             THEN InvalidCredentials
             ELSE [Response(200, "") EXCEPT !.token = SignToken(user._id),
                                            !.user = UserBody(user)]

AuthRequest(op, name, email, password) ==
    [op |-> op, token |-> None, id |-> None, title |-> None,
     googleDriveLink |-> None, file |-> None, author |-> None,
     name |-> name, email |-> email, password |-> password,
     bearer |-> None, cookie |-> None]

PostRegister(Names, Emails, Passwords) ==
    \E n \in Names, e \in Emails, p \in Passwords :
        LET out == Register(users, n, e, p)
        IN  /\ out.users # users => Cardinality(users) < MaxUsers
            /\ Cardinality(Issue(issued, out.resp, now)) <= MaxTokens
            /\ req' = AuthRequest("REGISTER", n, e, p)
            /\ resp' = out.resp
            /\ users' = out.users
            /\ cookie' = SetCookie(cookie, out.resp, now)
            /\ issued' = Issue(issued, out.resp, now)
            /\ UNCHANGED <<blogs, nextBlog, now, pending, updates, proc, client>>

\* a register request runs to its first await; one that passes the checks
\* stays in flight until its save runs
RegisterBegin(Names, Emails, Passwords) ==
    \E n \in Names, e \in Emails, p \in Passwords :
        LET early == RegisterCheck(users, n, e, p)
            r     == AuthRequest("REGISTER", n, e, p)
        IN  IF IsSome(early)
            THEN /\ req' = r
                 /\ resp' = Get(early)
                 /\ UNCHANGED <<users, blogs, nextBlog, now, cookie, issued, pending, updates, proc, client>>
            ELSE /\ Cardinality(pending) < MaxPending
                 /\ pending' = pending \cup {r}
                 /\ UNCHANGED <<users, blogs, nextBlog, now, req, resp, cookie, issued, updates, proc, client>>

\* the save of a request in flight, and its response
RegisterFinish ==
    \E r \in pending :
        LET out == RegisterSave(users, r.name, r.email, r.password)
        IN  /\ out.users # users => Cardinality(users) < MaxUsers
            /\ Cardinality(Issue(issued, out.resp, now)) <= MaxTokens
            /\ req' = r
            /\ resp' = out.resp
            /\ users' = out.users
            /\ cookie' = SetCookie(cookie, out.resp, now)
            /\ issued' = Issue(issued, out.resp, now)
            /\ pending' = pending \ {r}
            /\ UNCHANGED <<blogs, nextBlog, now, updates, proc, client>>

PostLogin(Emails, Passwords) ==
    \E e \in Emails, p \in Passwords :
        LET out == Login(users, e, p)
        IN  /\ Cardinality(Issue(issued, out, now)) <= MaxTokens
            /\ req' = AuthRequest("LOGIN", None, e, p)
            /\ resp' = out
            /\ cookie' = SetCookie(cookie, out, now)
            /\ issued' = Issue(issued, out, now)
            /\ UNCHANGED <<users, blogs, nextBlog, now, pending, updates, proc, client>>

(***************************************************************************)
(* routes/authRoutes : current user and logout; the token on the wire      *)
(***************************************************************************)
\* mutation of ExtractToken: the cookie is read before the header
ExtractTokenCookieFirst(header, held) == IF IsSome(held) THEN held ELSE header

\* middleware/auth: the token of the Authorization header, else of the cookie
ExtractToken(header, held) == IF IsSome(header) THEN header ELSE held

\* jwt.verify at time clock: the claims of a well-formed token whose expiry
\* has not been reached; anything else fails verification
jwtVerify(raw, clock) ==
    IF raw = None THEN None
    ELSE IF Get(raw).kind = "jwt" /\ clock < Get(raw).exp
    THEN Some([id |-> Get(raw).id, ok |-> TRUE])
    ELSE Some([id |-> Get(raw).id, ok |-> FALSE])

\* mutation of Me: the document is sent without select('-password')
MeSelectsAll(us, user) ==
    IF user = None THEN Response(500, "Error getting user")
    ELSE IF \E u \in us : u._id = Get(user).id
    THEN LET u == CHOOSE u \in us : u._id = Get(user).id
         IN  [Response(200, "") EXCEPT !.user = Some(u)]
    ELSE Response(200, "")

\* GET /me handler: User.findById(req.user.id).select('-password')
Me(us, user) ==
    IF user = None THEN Response(500, "Error getting user")
    ELSE IF \E u \in us : u._id = Get(user).id
    THEN LET u == CHOOSE u \in us : u._id = Get(user).id
         IN  [Response(200, "") EXCEPT
                !.user = Some([_id |-> u._id, name |-> u.name, email |-> u.email])]
    ELSE Response(200, "")

\* router.get('/me', auth, handler)
RouteMe(us, token) ==
    LET a == auth(token)
    IN  IF ~a.ok THEN AuthFailure ELSE Me(us, a.user)

\* GET /logout handler
LogoutResponse == Response(200, "User logged out successfully")

\* a client sends any token it was handed as the bearer header, or none, and
\* the cookie it holds, or none
Bearers == { None } \cup { Some(t) : t \in issued }

GetMe ==
    \E h \in Bearers, c \in { None, cookie } :
        LET tok == jwtVerify(ExtractToken(h, c), now)
        IN  /\ req' = [Request("ME", tok, None, None, None, None)
                         EXCEPT !.bearer = h, !.cookie = c]
            /\ resp' = RouteMe(users, tok)
            /\ UNCHANGED <<users, blogs, nextBlog, now, cookie, issued, pending, updates, proc, client>>

GetLogout ==
    /\ req' = Request("LOGOUT", None, None, None, None, None)
    /\ resp' = LogoutResponse
    /\ cookie' = Some(NoneCookie)
    /\ UNCHANGED <<users, blogs, nextBlog, now, issued, pending, updates, proc, client>>

\* time passes between requests
Tick ==
    /\ now < MaxClock
    /\ now' = now + 1
    /\ UNCHANGED <<users, blogs, nextBlog, req, resp, cookie, issued, pending, updates, proc, client>>

(***************************************************************************)
(* Upload filter applied to one file                                       *)
(***************************************************************************)
File(buffer, mimetype, originalname) ==
    [buffer |-> buffer, size |-> Len(buffer), mimetype |-> mimetype,
     originalname |-> originalname]

\* a file longer than the limit; only its first bytes are written out
HugeFile ==
    [buffer |-> <<137, 80>>, size |-> FileSizeLimit + 1, mimetype |-> Mime_png,
     originalname |-> Name_a_png]

FilterFile ==
    \E f \in { File(<<1>>, m, n) :
                 m \in { Mime_png, Mime_jpeg, Mime_gif, Mime_webp, Mime_jpg, Mime_svg,
                         Mime_PNG, Mime_text, Mime_pdf, Mime_webpack },
                 n \in { Name_a_png, Name_b_JPG, Name_c_jpeg, Name_d_gif, Name_e_webp,
                         Name_f_txt, Name_png, Name_dotpng, Name_g_png_txt,
                         Name_h_pngx, Name_i_webpack, Name_j_pdf } } :
        /\ req' = Request("FILTER", None, None, None, None, Some(f))
        /\ resp' = IF fileFilter(f) THEN Response(200, "accepted")
                   ELSE Response(500, "Only image files are allowed (jpeg, jpg, png, gif, webp)")
        /\ UNCHANGED <<users, blogs, nextBlog, now, cookie, issued, pending, updates, proc, client>>

(***************************************************************************)
(* frontend : contexts/AuthContext                                         *)
(***************************************************************************)
\* what a rejected api call leaves: the page the interceptor loaded, or the
\* page as the caller's error handling leaves it
Rejected(c, status, handled) ==
    IF OnResponseError(c, status) # c THEN OnResponseError(c, status) ELSE handled

ClientEvent(c, what) == [c EXCEPT !.event = what, !.events = @ + 1]

\* the effect on mount: a stored token is checked with GET /api/auth/me
verifyToken ==
    /\ client.loading
    /\ client.events < MaxEvents
    /\ LET c == ClientEvent(client, "verifyToken")
       IN  IF client.token = None
           THEN /\ client' = [c EXCEPT !.loading = FALSE]
                /\ UNCHANGED <<req, resp>>
           ELSE \E lost \in BOOLEAN :
                   LET answer == IF lost THEN NoResponse
                                 ELSE RouteMe(users, client.token)
                   IN  /\ req' = Request("ME", client.token, None, None, None, None)
                       /\ resp' = answer
                       /\ client' =
                            IF AxiosFulfilled(answer)
                            THEN [c EXCEPT !.user = answer.user, !.loading = FALSE]
                            ELSE Rejected(c, answer.status,
                                          [c EXCEPT !.token = None, !.loading = FALSE])
    /\ UNCHANGED <<users, blogs, nextBlog, now, cookie, issued, pending, updates, proc>>

\* login(email, password)
login(Emails, Passwords) ==
    /\ ~client.loading
    /\ client.events < MaxEvents
    /\ \E e \in Emails, p \in Passwords, lost \in BOOLEAN :
          LET answer == IF lost THEN NoResponse ELSE Login(users, e, p)
              c      == ClientEvent(client, "login")
          IN  /\ Cardinality(Issue(issued, answer, now)) <= MaxTokens
              /\ req' = AuthRequest("LOGIN", None, e, p)
              /\ resp' = answer
              /\ cookie' = SetCookie(cookie, answer, now)
              /\ issued' = Issue(issued, answer, now)
              /\ client' =
                   IF ~AxiosFulfilled(answer) THEN Rejected(c, answer.status, c)
                   ELSE IF answer.token = None THEN c
                   ELSE [c EXCEPT !.token = answer.token, !.user = answer.user]
    /\ UNCHANGED <<users, blogs, nextBlog, now, pending, updates, proc>>

\* register(userData)
register(Names, Emails, Passwords) ==
    /\ ~client.loading
    /\ client.events < MaxEvents
    /\ \E n \in Names, e \in Emails, p \in Passwords,
          lost \in { "nothing", "request", "response" } :
          LET out    == IF lost = "request"
                        THEN [users |-> users, resp |-> NoResponse]
                        ELSE Register(users, n, e, p)
              answer == IF lost = "nothing" THEN out.resp ELSE NoResponse
              c      == ClientEvent(client, "register")
          IN  /\ out.users # users => Cardinality(users) < MaxUsers
              /\ Cardinality(Issue(issued, answer, now)) <= MaxTokens
              /\ req' = AuthRequest("REGISTER", n, e, p)
              /\ resp' = answer
              /\ users' = out.users
              /\ cookie' = SetCookie(cookie, answer, now)
              /\ issued' = Issue(issued, answer, now)
              /\ client' =
                   IF ~AxiosFulfilled(answer) THEN Rejected(c, answer.status, c)
                   ELSE [c EXCEPT !.token = answer.token, !.user = answer.user]
    /\ UNCHANGED <<blogs, nextBlog, now, pending, updates, proc>>

\* logout()
logout ==
    /\ ~client.loading
    /\ client.events < MaxEvents
    /\ client' = [ClientEvent(client, "logout") EXCEPT !.token = None, !.user = None]
    /\ UNCHANGED <<users, blogs, nextBlog, now, req, resp, cookie, issued, pending, updates,
                   proc>>

\* the router's navigate(path): the page changes without a load
Navigate(Pages) ==
    /\ ~client.loading
    /\ \E path \in Pages :
          /\ path # client.path
          /\ client' = [client EXCEPT !.path = path]
    /\ UNCHANGED <<users, blogs, nextBlog, now, req, resp, cookie, issued, pending, updates,
                   proc>>

\* the stored token reaches its expiry: from then on its verification fails
TokenExpires ==
    /\ IsSome(client.token) /\ Get(client.token).ok
    /\ client' = [client EXCEPT !.token = Some([Get(@) EXCEPT !.ok = FALSE])]
    /\ UNCHANGED <<users, blogs, nextBlog, now, req, resp, cookie, issued, pending, updates,
                   proc>>

(***************************************************************************)
(* Specifications                                                          *)
(***************************************************************************)
SeedUsers ==
    { [_id |-> 1, name |-> Str_Alice, email |-> Email_abc, password |-> Hash(Pw_secret1)],
      [_id |-> 2, name |-> Trim(Str_Bob), email |-> Email_xyz, password |-> Hash(Pw_hunter2)] }

ValidToken(id) == Some([id |-> id, ok |-> TRUE])

\* a token whose verification fails (malformed, bad signature or expired)
BadToken(id) == Some([id |-> id, ok |-> FALSE])

Tokens == { None, BadToken(1), ValidToken(1), ValidToken(2) }

RequestIds(cap) ==
    { [valid |-> TRUE, n |-> n] : n \in 1..cap } \cup { [valid |-> FALSE, n |-> 0] }

WellFormedIds(cap) == { [valid |-> TRUE, n |-> n] : n \in 1..cap }

Input(token, title, link, file) ==
    [token |-> token, title |-> title, googleDriveLink |-> link, file |-> file,
     author |-> None, bearer |-> None, cookie |-> None]

\* a request whose body also carries an author field
BodyInput(token, title, link, file, author) ==
    [token |-> token, title |-> title, googleDriveLink |-> link, file |-> file,
     author |-> author, bearer |-> None, cookie |-> None]

PngFile == File(<<255>>, Mime_png, Name_a_png)

JpegTxtFile == File(<<1>>, Mime_jpeg, Name_f_txt)

\* what an authenticated client sends: two valid posts, a short title, an
\* empty body, a refused file type and a file over the size limit
Payloads ==
    { <<Some(Str_Post), Some(Str_Link1), None>>,
      <<Some(Str_News), Some(Str_Link2), Some(PngFile)>>,
      <<Some(Str_Hi), Some(Str_Link1), None>>,
      <<None, None, None>>,
      <<Some(Str_Post), Some(Str_Link1), Some(JpegTxtFile)>>,
      <<Some(Str_Post), Some(Str_Link1), Some(HugeFile)>> }

\* the first user sends every payload, the second a valid post and the two
\* refused files, and a post arrives without a token and with a bad one
Inputs ==
    { Input(ValidToken(1), p[1], p[2], p[3]) : p \in Payloads }
    \cup { Input(ValidToken(2), Some(Str_News), Some(Str_Link2), Some(f)) :
             f \in { PngFile, JpegTxtFile, HugeFile } }
    \cup { Input(t, Some(Str_News), Some(Str_Link2), Some(PngFile)) : t \in { None, BadToken(1) } }

Init ==
    /\ users = SeedUsers
    /\ blogs = {}
    /\ nextBlog = 1
    /\ now = 0
    /\ req = Request("NONE", None, None, None, None, None)
    /\ resp = Response(0, "")
    /\ cookie = None
    /\ issued = {}
    /\ pending = {}
    /\ updates = {}
    /\ proc = Serving
    /\ client = FreshClient

Next ==
    \/ PostBlog(Inputs, {1}, MaxBlogs)
    \/ PutBlog(Inputs, RequestIds(MaxBlogs))
    \/ DeleteBlogById(Tokens, RequestIds(MaxBlogs))
    \/ GetBlogs
    \/ GetBlog(RequestIds(MaxBlogs))

Spec == Init /\ [][Next]_vars

GifFile == File(<<71, 73, 70>>, Mime_gif, Name_d_gif)

\* creations: complete bodies with a file and with an author
\* field, and bodies whose title or link is short, blank, empty or missing
CreateInputs ==
    { Input(ValidToken(1), Some(Str_Post), Some(Str_Link1), Some(PngFile)),
      BodyInput(ValidToken(2), Some(Str_Post), Some(Str_Link1), None, Some(1)),
      Input(ValidToken(1), Some(Str_Hi), Some(Str_Link1), None),
      Input(ValidToken(1), Some(Str_HiPad), Some(Str_Link1), Some(PngFile)),
      Input(ValidToken(1), None, Some(Str_Link1), None),
      Input(ValidToken(2), Some(Str_Post), None, None),
      Input(ValidToken(1), Some(Str_Post), Some(Str_Blank), None) }

\* patches: every combination of title, link and file present or not, an
\* empty title, a blank title and a body that carries an author field
PatchInputs ==
    { Input(ValidToken(1), t, l, f) :
        t \in { None, Some(Str_News) }, l \in { None, Some(Str_Link2) },
        f \in { None, Some(GifFile) } }
    \cup { Input(ValidToken(1), Some(Str_Empty), Some(Str_Link2), None),
           Input(ValidToken(1), Some(Str_Blank), None, None),
           BodyInput(ValidToken(1), Some(Str_News), None, None, Some(2)) }

NextFields ==
    \/ PostBlog(CreateInputs, {1}, MaxBlogs)
    \/ PutBlog(PatchInputs, WellFormedIds(MaxBlogs))

SpecFields == Init /\ [][NextFields]_vars

\* the media pipeline: one author, files of every padding length
MediaFiles ==
    { None, Some(File(<<>>, Mime_gif, Name_d_gif)), Some(PngFile),
      Some(File(<<77, 97>>, Mime_jpeg, Name_b_JPG)),
      Some(File(<<0, 16, 131>>, Mime_webp, Name_e_webp)),
      Some(File(<<251, 239, 190, 1>>, Mime_jpg, Name_c_jpeg)),
      Some(JpegTxtFile) }

MediaInputs ==
    { Input(ValidToken(1), Some(Str_Post), Some(Str_Link1), f) : f \in MediaFiles }
    \cup { Input(ValidToken(1), None, None, f) : f \in { None, Some(PngFile) } }

NextMedia ==
    \/ PostBlog(MediaInputs, {1}, MaxBlogs)
    \/ PutBlog(MediaInputs, RequestIds(MaxBlogs))
    \/ DeleteBlogById({ ValidToken(1) }, RequestIds(MaxBlogs))
    \/ GetBlogs
    \/ GetBlog(RequestIds(MaxBlogs))

SpecMedia == Init /\ [][NextMedia]_vars

InitFilter ==
    /\ users = {}
    /\ blogs = {}
    /\ nextBlog = 1
    /\ now = 0
    /\ req = Request("NONE", None, None, None, None, None)
    /\ resp = Response(0, "")
    /\ cookie = None
    /\ issued = {}
    /\ pending = {}
    /\ updates = {}
    /\ proc = Serving
    /\ client = FreshClient

SpecFilter == InitFilter /\ [][FilterFile]_vars

Names == { None, Some(Str_Bob) }

Emails == { None, Some(Email_abc), Some(Email_ABc), Some(Email_abc_sp), Some(Email_xyz),
            Some(Email_mno), Some(Email_bad) }

RegisterPasswords == { None, Some(Pw_secret1), Some(Pw_12345) }

LoginPasswords == { None, Some(Pw_secret1), Some(Pw_hunter2) }

NextAuth ==
    \/ PostRegister(Names, Emails, RegisterPasswords)
    \/ PostLogin(Emails, LoginPasswords)

SpecAuth == InitFilter /\ [][NextAuth]_vars

\* concurrent registrations: requests for the same and for different emails
\* interleave at the awaits of the handler
NextRace ==
    \/ RegisterBegin({ Some(Str_Alice), Some(Str_Bob) },
                     { Some(Email_abc), Some(Email_ABc), Some(Email_xyz), Some(Email_bad) },
                     { Some(Pw_secret1), Some(Pw_12345) })
    \/ RegisterFinish
    \/ PostLogin({ Some(Email_abc) }, { Some(Pw_secret1) })

SpecRace == InitFilter /\ [][NextRace]_vars

\* listings: blogs are created within one clock reading or apart, renamed
\* and deleted, and the collection is listed
ListInputs ==
    { Input(ValidToken(1), Some(Str_Post), Some(Str_Link1), None),
      Input(ValidToken(2), Some(Str_News), Some(Str_Link2), None) }

NextList ==
    \/ PostBlog(ListInputs, {0, 1}, MaxListed)
    \/ PutBlog(ListInputs, RequestIds(MaxListed))
    \/ DeleteBlogById({ ValidToken(1), ValidToken(2) }, RequestIds(MaxListed))
    \/ GetBlogs

SpecList == Init /\ [][NextList]_vars

\* sessions: an account is registered and logged into, tokens are handed out,
\* time passes and the tokens are presented on the protected routes
SessionInputs ==
    { [Input(jwtVerify(ExtractToken(h, c), now), Some(Str_Post), Some(Str_Link1), None)
         EXCEPT !.bearer = h, !.cookie = c] :
        h \in Bearers, c \in { None, cookie } }

NextSession ==
    \/ PostRegister({ Some(Str_Alice) }, { Some(Email_abc) }, { Some(Pw_secret1) })
    \/ PostLogin({ Some(Email_abc) }, { Some(Pw_secret1) })
    \/ GetMe
    \/ GetLogout
    \/ Tick
    \/ PostBlog(SessionInputs, {0}, MaxSessionBlogs)

SpecSession == InitFilter /\ [][NextSession]_vars

\* what the responses show of a user: accounts are registered and logged
\* into, the current user is read, blogs are created, listed and read
NextExposure ==
    \/ PostRegister({ Some(Str_Alice) }, { Some(Email_abc), Some(Email_xyz) },
                    { Some(Pw_secret1), Some(Pw_12345) })
    \/ PostLogin({ Some(Email_abc), Some(Email_mno) }, { Some(Pw_secret1), Some(Pw_hunter2) })
    \/ GetMe
    \/ PostBlog(SessionInputs, {1}, MaxSessionBlogs)
    \/ GetBlogs
    \/ GetBlog(WellFormedIds(MaxSessionBlogs))

SpecExposure == InitFilter /\ [][NextExposure]_vars

\* two clients of one owner: a blog is created, updates of it are loaded and
\* saved in any interleaving, another user tries, and the owner deletes it
UpdateInputs ==
    { Input(ValidToken(1), Some(Str_News), None, None),
      Input(ValidToken(1), None, Some(Str_Link2), None),
      Input(ValidToken(1), Some(Str_Hi), None, Some(PngFile)),
      Input(ValidToken(2), Some(Str_News), Some(Str_Link2), None) }

NextUpdates ==
    \/ PostBlog({ Input(ValidToken(1), Some(Str_Post), Some(Str_Link1), None) }, {1},
                MaxSessionBlogs)
    \/ PutBegin(UpdateInputs, WellFormedIds(MaxSessionBlogs))
    \/ PutFinish
    \/ DeleteBlogById({ ValidToken(1) }, WellFormedIds(MaxSessionBlogs))

SpecUpdates == Init /\ [][NextUpdates]_vars

\* the life of the process: it starts, the connect succeeds or fails, and
\* requests arrive whenever the port is open
InitBoot ==
    /\ users = SeedUsers
    /\ blogs = {}
    /\ nextBlog = 1
    /\ now = 0
    /\ req = Request("NONE", None, None, None, None, None)
    /\ resp = Response(0, "")
    /\ cookie = None
    /\ issued = {}
    /\ pending = {}
    /\ updates = {}
    /\ proc = Booting
    /\ client = FreshClient

BootInputs ==
    { Input(ValidToken(1), Some(Str_Post), Some(Str_Link1), None),
      Input(ValidToken(2), Some(Str_News), Some(Str_Link2), Some(PngFile)),
      Input(None, Some(Str_News), Some(Str_Link2), None) }

NextBoot ==
    \/ StartServer
    \/ ConnectResolved
    \/ ConnectRejected
    \/ ServeWithoutStore(RequestIds(MaxBlogs))
    \/ (Connected /\ PostBlog(BootInputs, {1}, MaxBlogs))
    \/ (Connected /\ GetBlogs)
    \/ (Connected /\ GetBlog(RequestIds(MaxBlogs)))
    \/ (Connected /\ DeleteBlogById({ None, ValidToken(1), ValidToken(2) }, RequestIds(MaxBlogs)))

SpecBoot == InitBoot /\ [][NextBoot]_vars

\* the Dashboard of the first user: blogs come from another session and
\* from the form; entries are edited, submitted and deleted
InitDashboard ==
    /\ users = SeedUsers
    /\ blogs = {}
    /\ nextBlog = 1
    /\ now = 0
    /\ req = Request("NONE", None, None, None, None, None)
    /\ resp = Response(0, "")
    /\ cookie = None
    /\ issued = {}
    /\ pending = {}
    /\ updates = {}
    /\ proc = Serving
    /\ client = [FreshClient EXCEPT !.token = ValidToken(1), !.loading = FALSE]

Forms ==
    { FormState(Str_Post, Str_Link1, None),
      FormState(Str_News, Str_Link2, Some(PngFile)),
      FormState(Str_Blank, Str_Link1, Some(PngFile)),
      FormState(Str_Post, Str_News, None),
      FormState(Str_News, Str_Link1, Some(File(<<1>>, Mime_pdf, Name_j_pdf))) }

NextDashboard ==
    \/ PostBlog({ Input(ValidToken(1), Some(Str_Post), Some(Str_Link1), Some(PngFile)) }, {1},
                MaxBlogs)
    \/ DashboardMount
    \/ handleCreateBlog
    \/ handleEditBlog
    \/ handleFormSubmit(Forms)
    \/ handleDeleteBlog

SpecDashboard == InitDashboard /\ [][NextDashboard]_vars

\* the service functions called by the first user, with another session
\* that owns a blog of its own
ServiceData ==
    { [title |-> StringValue(Str_Post), googleDriveLink |-> StringValue(Str_Link1),
       image |-> StringValue(<<>>)],
      [title |-> StringValue(Str_News), googleDriveLink |-> StringValue(Str_Link2),
       image |-> FileValue(PngFile)],
      [title |-> StringValue(Str_News), googleDriveLink |-> StringValue(Str_Link2),
       image |-> FileListValue(<<PngFile>>)],
      [title |-> StringValue(Str_Hi), googleDriveLink |-> StringValue(Str_Link1),
       image |-> StringValue(<<>>)] }

NextService ==
    \/ PostBlog({ Input(ValidToken(2), Some(Str_Post), Some(Str_Link1), None) }, {1}, MaxBlogs)
    \/ ServiceCreateBlog(ServiceData)
    \/ ServiceUpdateBlog(ServiceData, RequestIds(MaxBlogs))
    \/ ServiceDeleteBlog(RequestIds(MaxBlogs))

SpecService == InitDashboard /\ [][NextService]_vars

\* the carousel: it mounts with a non-empty list, which the parent may
\* replace by another non-empty list at any time
SlideLists == { [i \in 1..n |-> i + k] : n \in 1..MaxSlides, k \in 0..MaxSlides }

InitCarousel ==
    /\ users = SeedUsers
    /\ blogs = {}
    /\ nextBlog = 1
    /\ now = 0
    /\ req = Request("NONE", None, None, None, None, None)
    /\ resp = Response(0, "")
    /\ cookie = None
    /\ issued = {}
    /\ pending = {}
    /\ updates = {}
    /\ proc = Serving
    /\ client \in { [FreshClient EXCEPT !.slides = l, !.loading = FALSE] : l \in SlideLists }

NextCarousel ==
    \/ goToNext
    \/ goToPrev
    \/ DotClick
    \/ AutoAdvance
    \/ onMouseEnter
    \/ onMouseLeave
    \/ ReplaceBlogs(SlideLists)

SpecCarousel == InitCarousel /\ [][NextCarousel]_vars

\* the session of one browser: a page is loaded with no token, a good one,
\* an expired one or one of an account that is gone; one account exists
\* and a second one can be registered
Paths == { "/", "/login", "/register" }

InitAuthContext ==
    /\ users = { u \in SeedUsers : u._id = 1 }
    /\ blogs = {}
    /\ nextBlog = 1
    /\ now = 0
    /\ req = Request("NONE", None, None, None, None, None)
    /\ resp = Response(0, "")
    /\ cookie = None
    /\ issued = {}
    /\ pending = {}
    /\ updates = {}
    /\ proc = Serving
    /\ client \in { [FreshClient EXCEPT !.token = t, !.path = path] :
                      t \in { None, ValidToken(1), BadToken(1), ValidToken(2) },
                      path \in Paths }

NextAuthContext ==
    \/ verifyToken
    \/ login({ Some(Email_abc) }, { Some(Pw_secret1), Some(Pw_hunter2) })
    \/ register({ Some(Str_Bob) }, { Some(Email_abc), Some(Email_xyz) }, { Some(Pw_secret1) })
    \/ logout
    \/ Navigate(Paths)
    \/ TokenExpires
    \/ ~client.loading /\ ServiceDeleteBlog(RequestIds(MaxBlogs))

SpecAuthContext == InitAuthContext /\ [][NextAuthContext]_vars

\* registration input: every field missing, empty, refused or accepted, for
\* an email that is free and one that is taken
NextRegister ==
    \/ PostRegister({ None, Some(Str_Empty), Some(Str_Bob) },
                    { None, Some(Str_Empty), Some(Email_bad), Some(Email_abc_sp),
                      Some(Email_abc), Some(Email_xyz) },
                    { None, Some(Str_Empty), Some(Pw_12345), Some(Pw_secret1) })
    \/ PostLogin({ Some(Email_abc) }, { Some(Pw_secret1) })

SpecRegister == InitFilter /\ [][NextRegister]_vars

(***************************************************************************)
(* Properties                                                              *)
(***************************************************************************)
\* the id a response body carries for a blog, under either key
WireId(w) == IF IsSome(w.id) THEN Get(w.id) ELSE Get(w._id)

\* every body GET / can return for the collection bs
Listings(us, bs) == { GetBlogList(us, order).blogs : order \in SortedNewestFirst(bs) }

IsMutation(r) == r.op \in {"POST", "PUT", "DELETE"}

\* the request addresses an existing blog whose author is not the caller
ByNonOwner(r, bs) ==
    /\ r.op \in {"PUT", "DELETE"}
    /\ auth(r.token).ok
    /\ IsValidObjectId(Get(r.id))
    /\ \E b \in FindById(bs, Get(r.id).n) : Get(b.author) # Get(auth(r.token).user).id

\* C1 as stated: a PUT or DELETE by an authenticated user who is not the
\* author is answered 401 "Not authorized" and the collection is left as it
\* was.
C1_NonOwnerAlways401 ==
    [][ ByNonOwner(req', blogs) =>
          /\ resp'.status = 401
          /\ resp'.message = "Not authorized"
          /\ blogs' = blogs ]_vars

\* C1 amended: a PUT or DELETE by an authenticated user who is not the author
\* never changes the collection, and the blog is still in every listing GET /
\* can return afterwards; the answer is 401 "Not authorized" whenever the
\* upload middleware lets the request through, and the upload error when the
\* PUT carries a file that the middleware refuses.
C1_OwnershipEnforced ==
    [][ ByNonOwner(req', blogs) =>
          /\ blogs' = blogs
          /\ \A l \in Listings(users', blogs') :
                \E i \in 1..Len(l) : WireId(l[i]) = Get(req'.id).n
          /\ uploadSingle(req'.file).err = "" =>
                (resp'.status = 401 /\ resp'.message = "Not authorized")
          /\ uploadSingle(req'.file).err # "" =>
                resp' = DefaultErrorHandler(uploadSingle(req'.file).err) ]_vars

C1_Witness ==
    /\ req.op = "PUT"
    /\ IsSome(req.file)
    /\ req.token = ValidToken(2)
    /\ resp.status = 401
    /\ resp.message = "Not authorized"
    /\ \E b \in blogs : b._id = Get(req.id).n /\ b.author = Some(1)

\* C2: a create, update or delete whose token fails verification is answered
\* with the authentication failure and nothing is created, changed or removed.
C2_AuthGate ==
    [][ (IsMutation(req') /\ ~auth(req'.token).ok) =>
          /\ resp' = AuthFailure
          /\ blogs' = blogs
          /\ nextBlog' = nextBlog ]_vars

C2_Witness ==
    /\ req.op = "PUT"
    /\ req.token = BadToken(1)
    /\ resp = AuthFailure
    /\ \E b \in blogs : b._id = Get(req.id).n /\ b.author = Some(1)

\* a register request whose three fields pass the handler's validation
ValidRegistration(r) ==
    /\ r.op = "REGISTER"
    /\ ~IsFalsy(r.name) /\ Trim(Get(r.name)) # <<>>
    /\ ~IsFalsy(r.password) /\ Len(Get(r.password)) >= MinPasswordLength
    /\ ~IsFalsy(r.email)

DuplicateEmailMessages ==
    { "Email already registered. Please use a different email or login.",
      "Email already registered" }

IsDuplicateEmailError(r) == r.status = 400 /\ r.message \in DuplicateEmailMessages

Registered(us, email) == \E u \in us : u.email = NormalizeEmail(email)

\* C3 as stated: any case or whitespace variant of a registered email is
\* refused with the duplicate-email error.
C3_AnyVariantIsDuplicate ==
    [][ (ValidRegistration(req') /\ EmailRegexTest(NormalizeEmail(Get(req'.email)))
           /\ Registered(users, Get(req'.email))) =>
          (IsDuplicateEmailError(resp') /\ users' = users) ]_vars

\* C3 amended: a valid registration succeeds exactly when its normalized email
\* is not yet registered and then stores one user under the normalized email;
\* a case variant of a registered email is refused with the duplicate-email
\* error, a whitespace-padded variant with the email-format error, and
\* neither adds a user.
C3_RegisterOncePerEmail ==
    [][ ValidRegistration(req') =>
          LET e == Get(req'.email)
          IN  /\ (EmailRegexTest(e) /\ ~Registered(users, e)) =>
                    /\ resp'.status = 201
                    /\ \E u \in users' \ users :
                          /\ users' = users \cup {u}
                          /\ u.email = NormalizeEmail(e)
                          /\ resp'.token = SignToken(u._id)
              /\ (EmailRegexTest(e) /\ Registered(users, e)) =>
                    (IsDuplicateEmailError(resp') /\ users' = users)
              /\ ~EmailRegexTest(e) =>
                    /\ resp'.status = 400
                    /\ resp'.message = "Please provide a valid email address"
                    /\ users' = users
              /\ \A u, v \in users' : u.email = v.email => u = v ]_vars

C3_Witness ==
    /\ req.op = "REGISTER"
    /\ req.email = Some(Email_ABc)
    /\ IsDuplicateEmailError(resp)
    /\ \E u \in users : u.email = Email_abc

LoginAttempt(r) == r.op = "LOGIN" /\ ~IsFalsy(r.email) /\ ~IsFalsy(r.password)

\* C4: a login for an unknown email and a login for a known email with a
\* password that does not match get one and the same response.
C4_UniformLoginFailure ==
    LoginAttempt(req) =>
        /\ ~Registered(users, Get(req.email)) => resp = InvalidCredentials
        /\ (\E u \in users : /\ u.email = NormalizeEmail(Get(req.email))
                             /\ ~comparePassword(u, Get(req.password)))
              => resp = InvalidCredentials

C4_Witness ==
    /\ LoginAttempt(req)
    /\ \E u \in users : /\ u.email = NormalizeEmail(Get(req.email))
                        /\ ~comparePassword(u, Get(req.password))
    /\ resp = InvalidCredentials

\* C5: a login succeeds exactly when the password hashes to the hash stored
\* for the normalized email, and then returns a token for that user.
C5_LoginIffPasswordMatches ==
    LoginAttempt(req) =>
        LET matching == { u \in users : /\ u.email = NormalizeEmail(Get(req.email))
                                        /\ u.password = Hash(Get(req.password)) }
        IN  /\ resp.status = 200 <=> matching # {}
            /\ resp.status = 200 =>
                  \E u \in matching : /\ resp.token = SignToken(u._id)
                                      /\ resp.user = UserBody(u)
            /\ resp.status # 200 => resp.token = None

C5_Witness ==
    /\ LoginAttempt(req)
    /\ req.email = Some(Email_ABc)
    /\ resp.status = 200
    /\ \E u \in users : u.email = Email_abc /\ resp.token = SignToken(u._id)

ImageMimeTypes == { Mime_jpeg, Mime_jpg, Mime_png, Mime_gif, Mime_webp }

ImageExtensions ==
    { <<".","j","p","e","g">>, <<".","j","p","g">>, <<".","p","n","g">>,
      <<".","g","i","f">>, <<".","w","e","b","p">> }

\* the file passes both checks of the media validation as the claim states it
IsImageFile(f) ==
    /\ f.mimetype \in ImageMimeTypes
    /\ ToLowerCase(ExtName(f.originalname)) \in ImageExtensions

\* C6: the filter accepts a file exactly when its MIME type is one of the
\* image types and its extension is one of the image extensions.
C6_FilterAcceptsOnlyImages ==
    req.op = "FILTER" => (resp.status = 200 <=> IsImageFile(Get(req.file)))

\* the uploaded file breaks the type rule or the size rule of the upload
ViolatesMediaRules(r) ==
    /\ r.op \in {"POST", "PUT"}
    /\ auth(r.token).ok
    /\ IsSome(r.file)
    /\ (~fileFilter(Get(r.file)) \/ Get(r.file).size > FileSizeLimit)

\* C7: a create or update whose file breaks the media rules is answered 400
\* and writes nothing.
C7_BadMediaIs400 ==
    [][ ViolatesMediaRules(req') => (resp'.status = 400 /\ blogs' = blogs) ]_vars

\* the image of a response body decodes to the bytes, type and name of file f
CarriesFile(w, f) ==
    /\ IsSome(w.image)
    /\ IsSome(Get(w.image).data)
    /\ Get(Get(w.image).data).kind = "string"
    /\ Base64Decode(Get(Get(w.image).data).text) = f.buffer
    /\ Get(w.image).contentType = Some(f.mimetype)
    /\ Get(w.image).filename = Some(f.originalname)

\* C8: after a create or update that stored an uploaded file, the response
\* and every listing carry for that blog an image whose base64 data decodes
\* to the uploaded bytes and whose contentType and filename are the uploaded
\* ones.
C8_ImageRoundTrip ==
    [][ (req'.op \in {"POST", "PUT"} /\ resp'.status \in {200, 201} /\ IsSome(req'.file)) =>
          LET f == Get(req'.file)
              w == resp'.blogs[1]
          IN  /\ CarriesFile(w, f)
              /\ \A l \in Listings(users', blogs') :
                    \E i \in 1..Len(l) : WireId(l[i]) = WireId(w) /\ CarriesFile(l[i], f) ]_vars

C8_Witness ==
    /\ req.op = "POST"
    /\ resp.status = 201
    /\ IsSome(req.file)
    /\ Get(req.file).buffer = <<251, 239, 190, 1>>
    /\ CarriesFile(resp.blogs[1], Get(req.file))

CompleteOrAbsent(img) ==
    \/ (img.data = None /\ img.contentType = None /\ img.filename = None)
    \/ (IsSome(img.data) /\ IsSome(img.contentType) /\ IsSome(img.filename))

\* C9: every stored blog and every blog of a response has either no image or
\* an image with data, contentType and filename all present.
C9_ImageCompleteOrAbsent ==
    /\ \A b \in blogs : CompleteOrAbsent(b.image)
    /\ \A i \in 1..Len(resp.blogs) :
          IsSome(resp.blogs[i].image) => CompleteOrAbsent(Get(resp.blogs[i].image))

C9_Witness ==
    /\ req.op = "PUT"
    /\ resp.status = 200
    /\ IsSome(req.file)
    /\ IsSome(resp.blogs[1].image)
    /\ \E b \in blogs : b.image = NoImage

Provided(field) == IsSome(field) /\ Get(field) # <<>>

C13_AuthorFixedAtCreation ==
    [][ /\ (req'.op = "POST" /\ resp'.status = 201) =>
              \E b \in blogs' \ blogs :
                  /\ blogs' = blogs \cup {b}
                  /\ b.author = Some(Get(req'.token).id)
        /\ \A old \in blogs, new \in blogs' :
              new._id = old._id => new.author = old.author ]_vars

C13_Witness ==
    /\ req.op = "PUT"
    /\ resp.status = 200
    /\ req.author = Some(2)
    /\ \E b \in blogs : b._id = Get(req.id).n /\ b.author = Some(1)
    /\ \E b \in blogs : b.author = Some(2)

\* the body of a create has a title of at least three characters after
\* trimming and a link that is not empty after trimming
HasTitleAndLink(r) ==
    /\ IsSome(r.title) /\ Len(Trim(Get(r.title))) >= 3
    /\ IsSome(r.googleDriveLink) /\ Len(Trim(Get(r.googleDriveLink))) >= 1

\* the request passes auth and carries no file or a file the upload accepts
ReachesCreate(r) ==
    /\ r.op = "POST"
    /\ auth(r.token).ok
    /\ (r.file = None \/ (fileFilter(Get(r.file)) /\ Get(r.file).size <= FileSizeLimit))

Deleted(bs, next, n) == n \in 1..(next - 1) /\ FindById(bs, n) = {}

\* the request addresses the blog numbered n by a well-formed id
Addresses(r, n) ==
    /\ r.op \in {"GET", "PUT", "DELETE"}
    /\ IsValidObjectId(Get(r.id))
    /\ Get(r.id).n = n

C15_ReadsDoNotMutate ==
    [][ /\ req'.op \in {"LIST", "GET"} =>
              /\ blogs' = blogs
              /\ users' = users
              /\ nextBlog' = nextBlog
        /\ (req.op = "GET" /\ req'.op = "GET" /\ req'.id = req.id) =>
              resp' = resp ]_vars

C15_Witness ==
    /\ req.op = "GET"
    /\ resp.status = 200
    /\ Cardinality(blogs) = 2
    /\ IsSome(resp.blogs[1].image)
    /\ \E b \in blogs : /\ b._id = Get(req.id).n
                         /\ resp.blogs[1].title = b.title
                         /\ resp.blogs[1].googleDriveLink = b.googleDriveLink

\* the stored password hashes and the passwords they were made from
Secrets ==
    { u.password : u \in users } \cup { Pw_secret1, Pw_hunter2, Pw_12345 }

\* C17: no response carries a password or a password hash: not in the user
\* object of register, login and GET /me, not in the token claims, and not in
\* the populated author of a blog of GET / and GET /:id.
C17_NoPasswordInResponses ==
    /\ IsSome(resp.user) =>
          /\ "password" \notin DOMAIN Get(resp.user)
          /\ Get(resp.user).name \notin Secrets
          /\ Get(resp.user).email \notin Secrets
    /\ IsSome(resp.token) => "password" \notin DOMAIN Get(resp.token)
    /\ \A i \in 1..Len(resp.blogs) :
          /\ "password" \notin DOMAIN resp.blogs[i].author
          /\ IsSome(resp.blogs[i].author.name) =>
                Get(resp.blogs[i].author.name) \notin Secrets

C17_Witness ==
    /\ req.op = "ME"
    /\ resp.status = 200
    /\ IsSome(resp.user)
    /\ Get(resp.user).email = Email_abc
    /\ \E u \in users : u.email = Email_abc /\ u.password = Hash(Pw_secret1)
    /\ blogs # {}

\* the token a protected request presents: the bearer header when there is
\* one, else the cookie
Presents(r, t) ==
    /\ r.op \in {"ME", "POST", "PUT", "DELETE"}
    /\ t.kind = "jwt"
    /\ IF IsSome(r.bearer) THEN r.bearer = Some(t) ELSE r.cookie = Some(t)

\* C18: a token handed out by register or login passes the auth middleware
\* of a protected route at every time before its expiry, whether or not
\* logout was called in between and whatever cookie accompanies it, and is
\* answered with the authentication failure from its expiry on; logout
\* changes nothing on the server.  (A step that leaves the clock alone is a
\* request; the other steps are the passing of time.)
C18_ExpiryIsSoleInvalidation ==
    [][ /\ \A t \in issued :
              (Presents(req', t) /\ now' = now) =>
                /\ now' < t.exp => (resp' # AuthFailure /\ resp'.status \in {200, 201})
                /\ now' >= t.exp => (resp' = AuthFailure /\ blogs' = blogs)
        /\ req'.op = "LOGOUT" =>
              /\ resp'.status = 200
              /\ users' = users /\ blogs' = blogs /\ issued' = issued
        /\ \A t \in issued' \ issued :
              /\ resp'.status \in {200, 201}
              /\ req'.op \in {"REGISTER", "LOGIN"}
              /\ t.exp = now' + JwtExpire ]_vars

C18_Witness ==
    /\ req.op = "POST"
    /\ resp.status = 201
    /\ IsSome(req.bearer)
    /\ req.cookie = Some(NoneCookie)
    /\ cookie = Some(NoneCookie)
    /\ now > 0

\* the step is the save of a register request that was in flight
Finishes(r, before, after) == r \in before /\ after = before \ {r}

\* C19: no two stored users have the same email, also when register requests
\* for one normalized email are in flight together: the save of a request
\* whose email was stored in the meantime is answered 400 with the
\* duplicate-email message and adds no user, the save of any other adds
\* exactly one.
C19_EmailUniqueUnderRace ==
    [][ /\ \A u, v \in users' : u.email = v.email => u = v
        /\ \A r \in pending :
              Finishes(r, pending, pending') =>
                IF Registered(users, Get(r.email))
                THEN /\ resp'.status = 400
                     /\ resp'.message = "Email already registered"
                     /\ users' = users
                ELSE /\ resp'.status = 201
                     /\ \E u \in users' \ users :
                           /\ users' = users \cup {u}
                           /\ u.email = NormalizeEmail(Get(r.email)) ]_vars

C19_Witness ==
    /\ req.op = "REGISTER"
    /\ req.email = Some(Email_ABc)
    /\ resp.status = 400
    /\ resp.message = "Email already registered"
    /\ Cardinality({ u \in users : u.email = Email_abc }) = 1

\* C20: the response of GET / has one entry for every stored blog and no
\* other, each with the stored title and link, and an entry never stands
\* behind one with an earlier creation time.
C20_ListIsCompleteNewestFirst ==
    req.op = "LIST" =>
        /\ resp.status = 200
        /\ Len(resp.blogs) = Cardinality(blogs)
        /\ \A b \in blogs :
              \E i \in 1..Len(resp.blogs) :
                  /\ WireId(resp.blogs[i]) = b._id
                  /\ resp.blogs[i].title = b.title
                  /\ resp.blogs[i].googleDriveLink = b.googleDriveLink
                  /\ resp.blogs[i].createdAt = b.createdAt
                  /\ \A j \in 1..Len(resp.blogs) :
                        WireId(resp.blogs[j]) = b._id => j = i
        /\ \A i, j \in 1..Len(resp.blogs) :
              resp.blogs[i].createdAt > resp.blogs[j].createdAt => i < j

C20_Witness ==
    /\ req.op = "LIST"
    /\ Len(resp.blogs) = 3
    /\ resp.blogs[1].createdAt > resp.blogs[2].createdAt
    /\ resp.blogs[2].createdAt = resp.blogs[3].createdAt
    /\ WireId(resp.blogs[2]) > WireId(resp.blogs[3])

\* an email that is not of the form local@domain.tld without blanks
MalformedEmail(e) ==
    \/ \E i \in 1..Len(e) : IsSpace(e[i])
    \/ Cardinality({ i \in 1..Len(e) : e[i] = "@" }) # 1
    \/ e[1] = "@"
    \/ ~\E i, d \in 1..Len(e) : e[i] = "@" /\ i + 1 < d /\ d < Len(e) /\ e[d] = "."

\* a register request with an empty name, a malformed email or a password
\* of fewer than six characters
InvalidRegistration(r) ==
    /\ r.op = "REGISTER"
    /\ \/ IsFalsy(r.name)
       \/ IsFalsy(r.email) \/ MalformedEmail(Get(r.email))
       \/ IsFalsy(r.password) \/ Len(Get(r.password)) < 6

\* C21: a register request with an empty name, a syntactically invalid email
\* or a password shorter than 6 characters is answered 400 for its input and
\* not for what the store holds (never the duplicate-email answer, also when
\* the email is taken), adds no user, and hands out no token or cookie.
C21_RegisterValidatesFirst ==
    [][ InvalidRegistration(req') =>
          /\ resp'.status = 400
          /\ ~IsDuplicateEmailError(resp')
          /\ resp'.token = None /\ resp'.user = None
          /\ users' = users
          /\ issued' = issued /\ cookie' = cookie ]_vars

C21_Witness ==
    /\ req.op = "REGISTER"
    /\ req.name = Some(Str_Bob)
    /\ req.password = Some(Pw_12345)
    /\ req.email = Some(Email_abc) /\ Registered(users, Email_abc)
    /\ resp = Response(400, "Password must be at least 6 characters long")
    /\ issued # {}

\* the updates of blog n that have been saved and answered
Completed(n) == { u \in updates : u.doc._id = n /\ u.resp # None }

\* C22: updates of one blog by its owner that overlap in time all succeed
\* when their documents are valid, and afterwards every field of the stored
\* blog holds the value one of the completed updates wrote; author and
\* creation time are the ones the blog had when it was loaded.
C22_LastWriteWins ==
    \A b \in blogs :
        /\ \A u \in Completed(b._id) :
              ValidateBlog(u.doc) =>
                 /\ Get(u.resp).status = 200
                 /\ Get(u.resp).blogs = <<PutResponseBody(u.doc)>>
        /\ (\E u \in Completed(b._id) : ValidateBlog(u.doc)) =>
              \A f \in { "title", "googleDriveLink", "image" } :
                  \E u \in Completed(b._id) : ValidateBlog(u.doc) /\ b[f] = u.doc[f]
        /\ \A u \in Completed(b._id) :
              b.author = u.loaded.author /\ b.createdAt = u.loaded.createdAt

\* two updates loaded the same document, both were answered 200, and the
\* stored blog has the title of one and the link of the other
C22_Witness ==
    \E b \in blogs : \E u, v \in Completed(b._id) :
        /\ u.loaded = v.loaded
        /\ Get(u.resp).status = 200 /\ Get(v.resp).status = 200
        /\ u.doc.title # v.doc.title /\ u.doc.googleDriveLink # v.doc.googleDriveLink
        /\ b.title = u.doc.title /\ b.googleDriveLink = v.doc.googleDriveLink

\* C24: a blog that a DELETE answered 200 has removed never returns to the
\* collection, also when a PUT that loaded it before the delete saves after
\* it: that save stores nothing.
C24_DeleteWinsOverLateSave ==
    [][ /\ (req'.op = "DELETE" /\ resp'.status = 200) =>
              Deleted(blogs', nextBlog', Get(req'.id).n)
        /\ \A n \in 1..MaxSessionBlogs :
              Deleted(blogs, nextBlog, n) =>
                 /\ Deleted(blogs', nextBlog', n)
                 /\ \A u \in updates' \ updates :
                       (u.doc._id = n /\ u.resp # None) => blogs' = blogs ]_vars

\* the owner's update was loaded, the blog was deleted, and the save of the
\* update has been answered
C24_Witness ==
    \E u \in updates :
        /\ u.resp # None
        /\ req = u.req /\ resp = Get(u.resp)
        /\ ValidateBlog(u.doc)
        /\ Deleted(blogs, nextBlog, u.doc._id)

\* C23: the store connection is started once, at startup; when that first
\* connection fails the process exits, and no request is answered after the
\* failure.
C23_FailFastOnConnect ==
    [][ /\ (proc'.db = "connecting" /\ proc.db # "connecting") => proc = Booting
        /\ proc'.db = "failed" => proc'.phase = "exited"
        /\ proc.db = "failed" => (req' = req /\ resp' = resp) ]_vars

\* C25: a PUT or DELETE by an authenticated user on a malformed id is
\* answered with a 4xx status, never 500, and leaves the collection as it
\* was, as GET by id does for the same id.
C25_MalformedIdIsClientError ==
    [][ (/\ req'.op \in {"GET", "PUT", "DELETE"}
         /\ ~IsValidObjectId(Get(req'.id))
         /\ (req'.op = "GET" \/ auth(req'.token).ok)
         /\ (req'.op = "PUT" => uploadSingle(req'.file).err = "")) =>
            /\ resp'.status \in 400..499
            /\ blogs' = blogs ]_vars

\* the step is something the user did in the Dashboard
UserDid(what) == client'.events # client.events /\ client'.event = what

\* C26: for every blog in the Dashboard's list, loaded or just created, a
\* form submitted after Edit was chosen on it sends a PUT for that blog and
\* creates nothing, and Delete on it sends a DELETE for that blog.
C26_EditAndDeleteAddressTheEntry ==
    [][ /\ (UserDid("submit") /\ IsSome(client.editing)
              /\ validateForm(Get(client'.form))) =>
              /\ req'.op = "PUT"
              /\ req'.id = Some(PathId(WireId(Get(client.editing))))
              /\ nextBlog' = nextBlog
        /\ UserDid("delete") =>
              /\ req'.op = "DELETE"
              /\ req'.id = Some(PathId(WireId(Get(client'.target)))) ]_vars

\* C28: a submitted form with a selected image sends that image as the file
\* part named image, and the blog the request stores or updates holds it;
\* a form without an image sends no file part.
C28_SelectedImageIsUploaded ==
    [][ (UserDid("submit") /\ validateForm(Get(client'.form))) =>
          LET form == Get(client'.form)
          IN  /\ IsSome(form.image) =>
                    /\ \E i \in 1..Len(client'.sent) :
                          client'.sent[i] = FilePart("image", Get(form.image))
                    /\ req'.file = form.image
                    /\ ResponseOk(resp') =>
                          \E b \in blogs' :
                              /\ b._id = WireId(resp'.blogs[1])
                              /\ b.image = ImageOfFile(form.image)
              /\ form.image = None =>
                    /\ \A i \in 1..Len(client'.sent) : client'.sent[i].file = None
                    /\ req'.file = None ]_vars

\* C27: createBlog, updateBlog and deleteBlog of blogService resolve exactly
\* when the server answers the request with a 2xx status; they reject only
\* for an error status or no answer.
C27_ServiceAgreesWithServer ==
    [][ (/\ client'.events # client.events
         /\ client'.event \in { "createBlog", "updateBlog", "deleteBlog" }) =>
            (client'.outcome = "resolved" <=> resp'.status \in 200..299) ]_vars

\* C29: after any next, previous, dot, timer or pointer event and any
\* replacement of the list by a non-empty list, the index lies within the
\* list, so the current blog is defined; next wraps from the last index to
\* 0 and previous from 0 to the last index.
C29_IndexStaysInRange ==
    [][ /\ client'.index \in 0..(Len(client'.slides) - 1)
        /\ ~client'.crashed
        /\ (client'.event = "next" /\ client.index = Len(client.slides) - 1) =>
              client'.index = 0
        /\ (client'.event = "prev" /\ client.index = 0) =>
              client'.index = Len(client.slides) - 1 ]_vars

====
